---- MODULE Spec2Model ----
(***************************************************************************)
(* Credential lifecycle and resilient API client of slack-mcp-server:      *)
(* lib/token-store.js (token sources, atomic write, Chrome extraction      *)
(* behind the refreshInProgress flag) and lib/slack-client.js (LRU cache,  *)
(* checkTokenHealth, slackAPI), the latter stored in src/lib/handlers.js   *)
(* from line 1007 on.                                                      *)
(*                                                                         *)
(* The module holds three state machines over disjoint variables:          *)
(*   SpecCache  the LRUCache class                                         *)
(*   SpecWrite  atomicWriteSync on a POSIX file system                     *)
(*   Spec       the token store and the slackAPI call chains               *)
(***************************************************************************)
EXTENDS Integers, Sequences, FiniteSets, TLC

VARIABLES
  \* ---- LRUCache (SpecCache) ----
  cache,        \* this.cache: the Map, as the sequence of its entries in iteration order
  cacheNow,     \* Date.now() as seen by the cache
  lastOp,       \* the most recent cache operation and what it returned
  useOrder,     \* history: keys held by the cache, least recently used first
  setAt,        \* history: per key held by the cache, cacheNow at its last set
  \* ---- atomicWriteSync (SpecWrite) ----
  disk,         \* path -> file (or NoFile)
  wpc,          \* position inside atomicWriteSync
  wContent,     \* the content argument of the running/last call
  wPrior,       \* history: the target file when the call began
  wFailed,      \* history: the step of the call that failed ("none" if none did)
  wCount,       \* number of calls begun
  \* ---- token store and slackAPI (Spec, SpecLoad) ----
  env,                \* process.env.SLACK_TOKEN / SLACK_COOKIE
  file,               \* ~/.slack-mcp-tokens.json
  keychain,           \* the two generic-password entries of the macOS keychain
  isMac,              \* IS_MACOS
  chrome,             \* what the Slack tab of Chrome holds (cookie d, localStorage token)
  valid,              \* the sessions the remote service accepts
  refreshInProgress,  \* the module-level lock of token-store.js
  lastRefreshAttempt, \* the module-level timestamp of slack-client.js
  now,                \* Date.now(), in hours
  running,            \* the task whose synchronous code holds the JS thread, or "none"
  task,               \* per task: position and locals of its handler
  loadSnap,           \* history: the sources when the running loadTokens call began
  lastLoad,           \* history: the last direct loadTokens call and its result
  prevLoad,           \* history: the one before
  \* ---- servers (SpecTool, SpecExit, SpecWeb) ----
  tool,               \* the CallTool request being dispatched and what it returned
  proc,               \* the server process: alive, stdin, background timer
  http,               \* the REST request being served and its response
  \* ---- token CLI and setup wizard (SpecCli) ----
  cli,                \* the command being run: its inputs and how far it got
  \* ---- resolveUser (SpecResolve) ----
  resolve,            \* the resolveUser calls in flight and the lookups issued
  \* ---- DM cache (SpecDm) ----
  dm                  \* the DM cache file and what loadDMCache last returned

cacheVars == <<cache, cacheNow, lastOp, useOrder, setAt>>
writeVars == <<disk, wpc, wContent, wPrior, wFailed, wCount>>
storeVars == <<env, file, keychain, isMac, chrome, valid, refreshInProgress,
               lastRefreshAttempt, now, running, task, loadSnap, lastLoad, prevLoad>>
sideVars == <<cli, resolve, dm>>
serverVars == <<tool, proc, http, sideVars>>
vars == <<cacheVars, writeVars, storeVars, serverVars>>

NULL == "null"

Min(a, b) == IF a < b THEN a ELSE b
Max(a, b) == IF a > b THEN a ELSE b

\* the servers before any request: no tool call, no process, no REST request
NoToolCall == [name |-> "none", phase |-> "none", isError |-> FALSE, text |-> ""]
NoProc == [alive |-> FALSE, stdin |-> "none", timer |-> "none", started |-> FALSE]
NoHeader == [present |-> FALSE, value |-> <<>>]
NoHttp == [method |-> "none", path |-> "none", header |-> NoHeader, status |-> 0,
           invoked |-> "none"]
\* no CLI command, no resolveUser call, no DM cache file
NoCli == [cmd |-> "none", phase |-> "none", token |-> [prefix |-> "", id |-> ""],
          cookie |-> [prefix |-> "", id |-> ""], saved |-> FALSE,
          oldEnv |-> [token |-> [prefix |-> "", id |-> ""],
                      cookie |-> [prefix |-> "", id |-> ""]]]
\* the messages whose authors are resolved together, and the user ids they carry
Callers == {"m1", "m2"}
UserIds == {"U1", "U2", "U3"}
IdleCall == [pc |-> "idle", id |-> "", result |-> "", looked |-> FALSE]
NoResolve == [calls |-> [c \in Callers |-> IdleCall],
              requests |-> [u \in UserIds |-> 0],
              failedAt |-> [u \in UserIds |-> -1],
              started |-> 0]
\* ~/.slack-mcp-dm-cache.json absent, and the object loadDMCache returns for it
DmMissing == [kind |-> "missing", dms |-> {}, updated |-> 0]
EmptyDMCache == [dms |-> {}, updated |-> 0]
NoDm == [file |-> DmMissing, loaded |-> EmptyDMCache, loadedAt |-> -1, now |-> 0]
SideParked == cli = NoCli /\ resolve = NoResolve /\ dm = NoDm
ServerParked == tool = NoToolCall /\ proc = NoProc /\ http = NoHttp /\ SideParked

(***************************************************************************)
(* LRUCache                                                                *)
(***************************************************************************)
MaxSize == 2      \* constructor argument maxSize
TtlMs == 2        \* constructor argument ttlMs, in clock ticks
MaxTime == 3      \* the clock stops here

Keys == {"x", "y", "z", "w"}
Values == {"a"}

\* Map.prototype.has / get / delete / set on the entry sequence
MapHas(m, k) == \E i \in 1..Len(m) : m[i].key = k
MapGet(m, k) == m[CHOOSE i \in 1..Len(m) : m[i].key = k]
MapDelete(m, k) == SelectSeq(m, LAMBDA e : e.key # k)
MapSet(m, k, e) ==
  IF MapHas(m, k)
  THEN [i \in 1..Len(m) |-> IF m[i].key = k THEN e ELSE m[i]]
  ELSE Append(m, e)
MapKeys(m) == {m[i].key : i \in 1..Len(m)}

Entry(k, v, exp) == [key |-> k, value |-> v, expiry |-> exp]

\* LRUCache.get: the Map after the call and the value returned
LRUGetSliding(m, k, t) ==
  IF ~MapHas(m, k) THEN [cache |-> m, value |-> NULL]
  ELSE LET e == MapGet(m, k) IN
       IF t > e.expiry
       THEN [cache |-> MapDelete(m, k), value |-> NULL]
       ELSE [cache |-> MapSet(MapDelete(m, k), k, Entry(k, e.value, t + TtlMs)),
             value |-> e.value]

LRUGetNoPromote(m, k, t) ==
  IF ~MapHas(m, k) THEN [cache |-> m, value |-> NULL]
  ELSE LET e == MapGet(m, k) IN
       IF t > e.expiry
       THEN [cache |-> MapDelete(m, k), value |-> NULL]
       ELSE [cache |-> m, value |-> e.value]

LRUGet(m, k, t) ==
  IF ~MapHas(m, k) THEN [cache |-> m, value |-> NULL]
  ELSE LET e == MapGet(m, k) IN
       IF t > e.expiry
       THEN [cache |-> MapDelete(m, k), value |-> NULL]
       ELSE [cache |-> MapSet(MapDelete(m, k), k, e), value |-> e.value]

\* LRUCache.set: the Map after the call
LRUSetOffByOne(m, k, v, t) ==
  LET m1 == MapDelete(m, k)
      m2 == IF Len(m1) > MaxSize /\ Len(m1) > 0 THEN MapDelete(m1, Head(m1).key) ELSE m1
  IN MapSet(m2, k, Entry(k, v, t + TtlMs))

LRUSet(m, k, v, t) ==
  LET m1 == MapDelete(m, k)
      \* this.cache.keys().next().value is undefined on an empty Map
      m2 == IF Len(m1) >= MaxSize /\ Len(m1) > 0 THEN MapDelete(m1, Head(m1).key) ELSE m1
  IN MapSet(m2, k, Entry(k, v, t + TtlMs))

\* history kept beside the cache: projected on the keys the cache still holds
Touch(order, k) == Append(SelectSeq(order, LAMBDA j : j # k), k)
Project(order, m) == SelectSeq(order, LAMBDA j : MapHas(m, j))
NoOp == [kind |-> "none", key |-> NULL, value |-> NULL, at |-> 0, setAt |-> -1,
         evicted |-> {}, evictedSetAt |-> -1]

CacheInit ==
  /\ cache = <<>>
  /\ cacheNow = 0
  /\ lastOp = NoOp
  /\ useOrder = <<>>
  /\ setAt = [k \in Keys |-> -1]

CacheGet(k) ==
  LET r == LRUGet(cache, k, cacheNow) IN
  /\ cache' = r.cache
  /\ lastOp' = [NoOp EXCEPT !.kind = "get", !.key = k, !.value = r.value,
                            !.at = cacheNow, !.setAt = setAt[k]]
  /\ useOrder' = Project(IF r.value # NULL THEN Touch(useOrder, k) ELSE useOrder, r.cache)
  /\ setAt' = [j \in Keys |-> IF MapHas(r.cache, j) THEN setAt[j] ELSE -1]
  /\ UNCHANGED cacheNow
  /\ UNCHANGED <<writeVars, storeVars, serverVars>>

CacheSet(k, v) ==
  LET m == LRUSet(cache, k, v, cacheNow)
      gone == (MapKeys(cache) \ MapKeys(m)) \ {k}
  IN
  /\ cache' = m
  /\ lastOp' = [NoOp EXCEPT !.kind = "set", !.key = k, !.value = v, !.at = cacheNow,
                            !.setAt = setAt[k], !.evicted = gone,
                            !.evictedSetAt = IF gone = {} THEN -1
                                             ELSE setAt[CHOOSE j \in gone : TRUE]]
  /\ useOrder' = Project(Touch(useOrder, k), m)
  /\ setAt' = [j \in Keys |-> IF j = k THEN cacheNow
                              ELSE IF MapHas(m, j) THEN setAt[j] ELSE -1]
  /\ UNCHANGED cacheNow
  /\ UNCHANGED <<writeVars, storeVars, serverVars>>

\* LRUCache.clear
CacheClear ==
  /\ cache # <<>>
  /\ cache' = <<>>
  /\ lastOp' = [NoOp EXCEPT !.kind = "clear", !.at = cacheNow]
  /\ useOrder' = <<>>
  /\ setAt' = [k \in Keys |-> -1]
  /\ UNCHANGED cacheNow
  /\ UNCHANGED <<writeVars, storeVars, serverVars>>

\* time passes
CacheTick ==
  /\ cacheNow < MaxTime
  /\ cacheNow' = cacheNow + 1
  /\ lastOp' = [NoOp EXCEPT !.kind = "tick", !.at = cacheNow + 1]
  /\ UNCHANGED <<cache, useOrder, setAt>>
  /\ UNCHANGED <<writeVars, storeVars, serverVars>>

CacheNext ==
  \/ \E k \in Keys : CacheGet(k)
  \/ \E k \in Keys, v \in Values : CacheSet(k, v)
  \/ CacheClear
  \/ CacheTick

(***************************************************************************)
(* atomicWriteSync                                                         *)
(***************************************************************************)
MaxWrites == 3    \* calls of atomicWriteSync in one run

TargetPath == "tokens.json"
\* `${filePath}.${process.pid}.tmp`
TempPathInPlace(filePath) == filePath
TempPath(filePath) == filePath \o ".4242.tmp"

Paths == {TargetPath, TempPath(TargetPath)}

NoFile == [data |-> -1, complete |-> FALSE, mode |-> "none"]
File(d, c, m) == [data |-> d, complete |-> c, mode |-> m]
Exists(d, p) == d[p] # NoFile

\* fs.renameSync: one atomic step that replaces the target
Rename(d, from, to) ==
  IF from = to THEN d ELSE [d EXCEPT ![to] = d[from], ![from] = NoFile]

\* the catch block: try { unlinkSync(tempPath) } catch {}
CleanupKeep(d, tempPath) == d
Cleanup(d, tempPath) == [d EXCEPT ![tempPath] = NoFile]

WriteInit ==
  /\ disk \in {[p \in Paths |-> NoFile],
               [p \in Paths |-> IF p = TargetPath THEN File(0, TRUE, "600") ELSE NoFile]}
  /\ wpc = "idle"
  /\ wContent = 0
  /\ wPrior = disk[TargetPath]
  /\ wFailed = "none"
  /\ wCount = 0

\* a caller (saveToFile, saveDMCache) enters atomicWriteSync(filePath, content)
WriteBegin ==
  /\ wpc \in {"idle", "returned", "thrown"}
  /\ wCount < MaxWrites
  /\ wpc' = "begun"
  /\ wCount' = wCount + 1
  /\ wContent' = wCount + 1
  /\ wPrior' = disk[TargetPath]
  /\ wFailed' = "none"
  /\ UNCHANGED disk
  /\ UNCHANGED <<cacheVars, storeVars, serverVars>>

\* writeFileSync(tempPath, content): open with truncation ...
WriteOpen ==
  /\ wpc = "begun"
  /\ \/ /\ disk' = [disk EXCEPT ![TempPath(TargetPath)] = File(wContent, FALSE, "default")]
        /\ wpc' = "opened"
        /\ UNCHANGED wFailed
     \/ /\ wpc' = "catching"          \* EACCES, ENOENT, EROFS: nothing created
        /\ wFailed' = "open"
        /\ UNCHANGED disk
  /\ UNCHANGED <<wContent, wPrior, wCount>>
  /\ UNCHANGED <<cacheVars, storeVars, serverVars>>

\* ... then the data
WriteData ==
  /\ wpc = "opened"
  /\ \/ /\ disk' = [disk EXCEPT ![TempPath(TargetPath)].complete = TRUE]
        /\ wpc' = "written"
        /\ UNCHANGED wFailed
     \/ /\ wpc' = "catching"          \* ENOSPC, EIO: a partial file stays behind
        /\ wFailed' = "data"
        /\ UNCHANGED disk
  /\ UNCHANGED <<wContent, wPrior, wCount>>
  /\ UNCHANGED <<cacheVars, storeVars, serverVars>>

\* try { execSync(`chmod 600 "${tempPath}"`) } catch {}
WriteChmod ==
  /\ wpc = "written"
  /\ \/ disk' = [disk EXCEPT ![TempPath(TargetPath)].mode = "600"]
     \/ UNCHANGED disk
  /\ wpc' = "chmodded"
  /\ UNCHANGED <<wContent, wPrior, wFailed, wCount>>
  /\ UNCHANGED <<cacheVars, storeVars, serverVars>>

\* renameSync(tempPath, filePath)
WriteRename ==
  /\ wpc = "chmodded"
  /\ \/ /\ disk' = Rename(disk, TempPath(TargetPath), TargetPath)
        /\ wpc' = "returned"
        /\ UNCHANGED wFailed
     \/ /\ wpc' = "catching"          \* EPERM, EISDIR, EIO
        /\ wFailed' = "rename"
        /\ UNCHANGED disk
  /\ UNCHANGED <<wContent, wPrior, wCount>>
  /\ UNCHANGED <<cacheVars, storeVars, serverVars>>

\* catch (e) { try { unlinkSync(tempPath) } catch {} throw e }
WriteCatch ==
  /\ wpc = "catching"
  /\ disk' = Cleanup(disk, TempPath(TargetPath))
  /\ wpc' = "thrown"
  /\ UNCHANGED <<wContent, wPrior, wFailed, wCount>>
  /\ UNCHANGED <<cacheVars, storeVars, serverVars>>

\* the process is killed inside atomicWriteSync
WriteCrash ==
  /\ wpc \in {"begun", "opened", "written", "chmodded", "catching"}
  /\ wpc' = "crashed"
  /\ UNCHANGED <<disk, wContent, wPrior, wFailed, wCount>>
  /\ UNCHANGED <<cacheVars, storeVars, serverVars>>

WriteNext ==
  \/ WriteBegin
  \/ WriteOpen
  \/ WriteData
  \/ WriteChmod
  \/ WriteRename
  \/ WriteCatch
  \/ WriteCrash

\* the state a specification leaves a machine in when it does not run it
CacheParked == CacheInit
WriteParked ==
  /\ disk = [p \in Paths |-> NoFile]
  /\ wpc = "idle"
  /\ wContent = 0
  /\ wPrior = NoFile
  /\ wFailed = "none"
  /\ wCount = 0

(***************************************************************************)
(* Token store: lib/token-store.js                                         *)
(***************************************************************************)
StartNow == 20    \* Date.now() at start, in hours: far beyond every threshold
MaxTicks == 2     \* hours that pass in one run

ApiTasks == {"a1", "a2"}     \* slackAPI call chains
MonTasks == {"hc"}           \* checkTokenHealth from the background timer / token status
LoadTasks == {"ld"}          \* direct loadTokens callers (main, handleHealthCheck)
Tasks == ApiTasks \cup MonTasks \cup LoadTasks

\* a token or cookie string: its prefix and the session it belongs to; NoTok is
\* the empty string / undefined / null
NoTok == [prefix |-> "", id |-> ""]
Tok(p, i) == [prefix |-> p, id |-> i]
Truthy(s) == s # NoTok
StartsWith(s, p) == s.prefix = p
Pair(t, c) == [token |-> t, cookie |-> c]
NoPair == Pair(NoTok, NoTok)
GoodPair(i) == Pair(Tok("xoxc-", i), Tok("xoxd-", i))

\* the object loadTokens returns; source "none" stands for null, updatedAt -1 for
\* undefined
Creds(t, c, src, upd) == [token |-> t, cookie |-> c, source |-> src, updatedAt |-> upd]
NoCreds == Creds(NoTok, NoTok, "none", -1)

NoTokenFile == [state |-> "missing", token |-> NoTok, cookie |-> NoTok, updatedAt |-> -1]
BadTokenFile == [state |-> "malformed", token |-> NoTok, cookie |-> NoTok, updatedAt |-> -1]
TokenFile(t, c, upd) == [state |-> "ok", token |-> t, cookie |-> c, updatedAt |-> upd]

\* getFromKeychain(key)
GetFromKeychain(key) == IF ~isMac THEN NoTok ELSE keychain[key]

\* getFromFile(): null when the file is missing or does not parse
GetFromFile == IF file.state # "ok" THEN NoCreds
               ELSE Creds(file.token, file.cookie, "file", file.updatedAt)

\* loadTokens, priorities 1 to 3 (skipped altogether when forceRefresh)
LoadStoredFileFirst ==
  IF Truthy(GetFromFile.token) /\ Truthy(GetFromFile.cookie)
  THEN Creds(GetFromFile.token, GetFromFile.cookie, "file", GetFromFile.updatedAt)
  ELSE IF Truthy(env.token) /\ Truthy(env.cookie)
  THEN Creds(env.token, env.cookie, "environment", -1)
  ELSE IF Truthy(GetFromKeychain("token")) /\ Truthy(GetFromKeychain("cookie"))
  THEN Creds(GetFromKeychain("token"), GetFromKeychain("cookie"), "keychain", -1)
  ELSE NoCreds

LoadStoredEither ==
  IF Truthy(env.token) \/ Truthy(env.cookie)
  THEN Creds(env.token, env.cookie, "environment", -1)
  ELSE IF Truthy(GetFromFile.token) \/ Truthy(GetFromFile.cookie)
  THEN Creds(GetFromFile.token, GetFromFile.cookie, "file", GetFromFile.updatedAt)
  ELSE IF Truthy(GetFromKeychain("token")) \/ Truthy(GetFromKeychain("cookie"))
  THEN Creds(GetFromKeychain("token"), GetFromKeychain("cookie"), "keychain", -1)
  ELSE NoCreds

LoadStoredKeychainFirst ==
  IF Truthy(env.token) /\ Truthy(env.cookie)
  THEN Creds(env.token, env.cookie, "environment", -1)
  ELSE IF Truthy(GetFromKeychain("token")) /\ Truthy(GetFromKeychain("cookie"))
  THEN Creds(GetFromKeychain("token"), GetFromKeychain("cookie"), "keychain", -1)
  ELSE IF Truthy(GetFromFile.token) /\ Truthy(GetFromFile.cookie)
  THEN Creds(GetFromFile.token, GetFromFile.cookie, "file", GetFromFile.updatedAt)
  ELSE NoCreds

LoadStored ==
  IF Truthy(env.token) /\ Truthy(env.cookie)
  THEN Creds(env.token, env.cookie, "environment", -1)
  ELSE IF Truthy(GetFromFile.token) /\ Truthy(GetFromFile.cookie)
  THEN Creds(GetFromFile.token, GetFromFile.cookie, "file", GetFromFile.updatedAt)
  ELSE IF Truthy(GetFromKeychain("token")) /\ Truthy(GetFromKeychain("cookie"))
  THEN Creds(GetFromKeychain("token"), GetFromKeychain("cookie"), "keychain", -1)
  ELSE NoCreds

\* extractFromChromeInternal: the pair, or NoPair for null
ExtractFromChromeUnchecked ==
  IF ~isMac THEN NoPair
  ELSE IF ~Truthy(chrome.cookie) \/ ~Truthy(chrome.token) THEN NoPair
  ELSE Pair(chrome.token, chrome.cookie)
ExtractFromChromeInternal ==
  IF ~isMac THEN NoPair
  ELSE IF ~Truthy(chrome.cookie) \/ ~StartsWith(chrome.cookie, "xoxd-") THEN NoPair
  ELSE IF ~Truthy(chrome.token) \/ ~StartsWith(chrome.token, "xoxc-") THEN NoPair
  ELSE Pair(chrome.token, chrome.cookie)

\* extractFromChrome sets the lock and calls extractFromChromeInternal, whose
\* execSync keeps the JS thread until the osascript subprocess ends
EnterProbeAsync(t) == [lock |-> FALSE, running |-> "none"]
EnterProbe(t) == [lock |-> TRUE, running |-> t]
\* finally { refreshInProgress = false }: the lock after extractFromChrome has
\* returned r (a pair, or null after a failure or an exception caught inside)
LeaveProbeOnSuccess(r) == r = NoPair
LeaveProbe(r) == FALSE

\* saveToFile: atomicWriteSync of the pair with updated_at = now
SaveToFileInPlace(t, c) == NoTokenFile
SaveToFile(t, c) == TokenFile(t, c, now)

\* saveToKeychain(key, value): delete the entry, then add it; false, never an
\* exception, on any failure.  outcome: "ok", "lost" (deleted, add failed),
\* "kept" (neither worked)
KcOutcomes == {"ok", "lost", "kept"}
SaveToKeychain(kc, key, value, outcome) ==
  IF ~isMac THEN kc
  ELSE [kc EXCEPT ![key] = CASE outcome = "ok" -> value
                             [] outcome = "lost" -> NoTok
                             [] OTHER -> kc[key]]

\* saveTokens(token, cookie)
SaveTokensKeychainFirst(t, c, ot, oc) ==
  /\ keychain' = SaveToKeychain(SaveToKeychain(keychain, "token", t, ot), "cookie", c, oc)
  /\ file' = IF isMac /\ ot = "ok" /\ oc = "ok" THEN SaveToFile(t, c) ELSE file
SaveTokens(t, c, ot, oc) ==
  /\ file' = SaveToFile(t, c)
  /\ keychain' = SaveToKeychain(SaveToKeychain(keychain, "token", t, ot), "cookie", c, oc)

InFlightPcs == {"probe_load", "h_probe_load", "h_probe", "probe_auth", "t_probe_load"}
InFlight == {t \in Tasks : task[t].pc \in InFlightPcs}
CanRun(t) == running \in {"none", t}

NoReport == [reason |-> "none", healthy |-> FALSE, warning |-> FALSE,
             critical |-> FALSE, refreshed |-> FALSE]
NoResp == [kind |-> "none", error |-> "", retryAfter |-> -1]
NoResult == [kind |-> "none", error |-> ""]
IdleTask == [pc |-> "idle", force |-> FALSE, creds |-> NoCreds, hcreds |-> NoCreds,
             retryCount |-> 0, retryOnAuthFail |-> TRUE, sleepMs |-> 0,
             result |-> NoResult, nReq |-> 0, rlOnly |-> 0, netOnly |-> 0,
             lastResp |-> NoResp,
             renewed |-> FALSE, disturbed |-> FALSE, authProbes |-> 0,
             health |-> NoReport]

Snap == [env |-> env, file |-> file, keychain |-> keychain, chrome |-> chrome]
NoLoad == [snap |-> Snap, force |-> FALSE, result |-> NoCreds, called |-> FALSE]

\* if (!forceRefresh && ...): priorities 1 to 3 are tried unless forceRefresh
StoredAlways(force) == LoadStored
Stored(force) == IF force THEN NoCreds ELSE LoadStored

\* loadTokens up to the call of extractFromChromeInternal: the stored sources,
\* then extractFromChrome, which returns null at once when the lock is held
LoadStep(t, from, probe, to, field) ==
  /\ running = t
  /\ task[t].pc = from
  /\ LET c == Stored(task[t].force) IN
     IF c # NoCreds
     THEN /\ task' = [task EXCEPT ![t].pc = to, ![t][field] = c]
          /\ UNCHANGED <<refreshInProgress, running>>
     ELSE IF refreshInProgress
     THEN /\ task' = [task EXCEPT ![t].pc = to, ![t][field] = NoCreds]
          /\ UNCHANGED <<refreshInProgress, running>>
     ELSE /\ task' = [task EXCEPT ![t].pc = probe]
          /\ refreshInProgress' = EnterProbe(t).lock
          /\ running' = EnterProbe(t).running
  /\ UNCHANGED <<env, file, keychain, isMac, chrome, valid, lastRefreshAttempt, now,
                 loadSnap, lastLoad, prevLoad>>
  /\ UNCHANGED <<cacheVars, writeVars, serverVars>>

\* the probe returns inside loadTokens: the lock is released, an extracted pair is
\* saved and returned with source chrome-auto
LoadProbeStep(t, probe, to, field) ==
  /\ CanRun(t)
  /\ task[t].pc = probe
  /\ refreshInProgress' = LeaveProbe(ExtractFromChromeInternal)
  /\ running' = t
  /\ LET r == ExtractFromChromeInternal IN
     IF r # NoPair
     THEN /\ \E ot, oc \in KcOutcomes : SaveTokens(r.token, r.cookie, ot, oc)
          /\ task' = [task EXCEPT ![t].pc = to,
                                  ![t][field] = Creds(r.token, r.cookie, "chrome-auto", -1)]
     ELSE /\ task' = [task EXCEPT ![t].pc = to, ![t][field] = NoCreds]
          /\ UNCHANGED <<file, keychain>>
  /\ UNCHANGED <<env, isMac, chrome, valid, lastRefreshAttempt, now,
                 loadSnap, lastLoad, prevLoad>>
  /\ UNCHANGED <<cacheVars, writeVars, serverVars>>

Load(t) == LoadStep(t, "load", "probe_load", "loaded", "creds")
LoadProbe(t) == LoadProbeStep(t, "probe_load", "loaded", "creds")

\* a direct call loadTokens(forceRefresh)
LoadStart(t, f) ==
  /\ t \in LoadTasks
  /\ running = "none"
  /\ task[t].pc = "idle"
  /\ task' = [task EXCEPT ![t] = [IdleTask EXCEPT !.pc = "load", !.force = f]]
  /\ running' = t
  /\ loadSnap' = Snap
  /\ UNCHANGED <<env, file, keychain, isMac, chrome, valid, refreshInProgress,
                 lastRefreshAttempt, now, lastLoad, prevLoad>>
  /\ UNCHANGED <<cacheVars, writeVars, serverVars>>

LoadReturn(t) ==
  /\ t \in LoadTasks
  /\ running = t
  /\ task[t].pc = "loaded"
  /\ lastLoad' = [snap |-> loadSnap, force |-> task[t].force, result |-> task[t].creds,
                  called |-> TRUE]
  /\ prevLoad' = lastLoad
  /\ task' = [task EXCEPT ![t] = IdleTask]
  /\ running' = "none"
  /\ UNCHANGED <<env, file, keychain, isMac, chrome, valid, refreshInProgress,
                 lastRefreshAttempt, now, loadSnap>>
  /\ UNCHANGED <<cacheVars, writeVars, serverVars>>

\* what the Slack tab of Chrome may hold: nothing (no tab, Chrome closed, osascript
\* timeout), a session pair, or values of another shape
ChromeStates == {NoPair, GoodPair("C"),
                 Pair(Tok("xoxc-", "C"), Tok("xoxb-", "C")),
                 Pair(Tok("xoxp-", "C"), Tok("xoxd-", "C"))}

\* what a source may hold: nothing, one half, or a pair
Holdings(i) == {NoPair, GoodPair(i), Pair(Tok("xoxc-", i), NoTok), Pair(NoTok, Tok("xoxd-", i))}

StoreParked ==
  /\ env = NoPair
  /\ file = NoTokenFile
  /\ keychain = NoPair
  /\ isMac = FALSE
  /\ chrome = NoPair
  /\ valid = {}
  /\ refreshInProgress = FALSE
  /\ lastRefreshAttempt = 0
  /\ now = StartNow
  /\ running = "none"
  /\ task = [t \in Tasks |-> IdleTask]
  /\ loadSnap = Snap
  /\ lastLoad = NoLoad
  /\ prevLoad = NoLoad

\* every combination of what the four sources hold
InitLoad ==
  /\ CacheParked /\ WriteParked /\ ServerParked
  /\ env \in Holdings("E")
  /\ file \in {NoTokenFile, BadTokenFile}
              \cup {TokenFile(h.token, h.cookie, u) : h \in Holdings("F"), u \in {-1, StartNow - 1}}
  /\ isMac \in BOOLEAN
  /\ keychain \in IF isMac THEN Holdings("K") ELSE {NoPair}
  /\ chrome \in IF isMac THEN ChromeStates ELSE {NoPair}
  /\ valid = {"E", "F", "K", "C"}
  /\ refreshInProgress = FALSE
  /\ lastRefreshAttempt = 0
  /\ now = StartNow
  /\ running = "none"
  /\ task = [t \in Tasks |-> IdleTask]
  /\ loadSnap = Snap
  /\ lastLoad = NoLoad
  /\ prevLoad = NoLoad

NextLoad ==
  \/ \E t \in LoadTasks, f \in BOOLEAN : LoadStart(t, f)
  \/ \E t \in LoadTasks : Load(t)
  \/ \E t \in LoadTasks : LoadProbe(t)
  \/ \E t \in LoadTasks : LoadReturn(t)

SpecLoad == InitLoad /\ [][NextLoad]_vars

(***************************************************************************)
(* Slack client: lib/slack-client.js (src/lib/handlers.js:1007-1300)       *)
(***************************************************************************)
TOKEN_WARNING_AGE == 6       \* hours
TOKEN_CRITICAL_AGE == 10     \* hours
REFRESH_COOLDOWN == 1        \* hours
Infinity == 1000000
MaxRetries == 3              \* options.maxRetries, default

RETRYABLE_NETWORK_ERRORS == {"ECONNRESET", "ETIMEDOUT", "ENOTFOUND", "EAI_AGAIN",
                             "ECONNREFUSED", "EPIPE", "UND_ERR_CONNECT_TIMEOUT"}
\* transport errors fetch may throw: a listed code, undici's "fetch failed" with
\* an unlisted cause, and one whose message names neither
NetworkErrors == {"ECONNRESET", "fetch failed", "ERR_INVALID_URL"}
IsRetryableAny(e) == TRUE
IsRetryable(e) == e \in RETRYABLE_NETWORK_ERRORS
MessageIncludesFetch(e) == e = "fetch failed"

Pow2(n) == IF n = 0 THEN 1 ELSE IF n = 1 THEN 2 ELSE IF n = 2 THEN 4 ELSE IF n = 3 THEN 8 ELSE 16
\* Math.min(1000 * Math.pow(2, retryCount), 10000)
NetworkBackoffLinear(retryCount) == Min(1000 * (retryCount + 1), 10000)
NetworkBackoff(retryCount) == Min(1000 * Pow2(retryCount), 10000)
\* parseInt(response.headers.get("Retry-After") || "5", 10); -1: no header
RetryAfterSeconds(h) == IF h = -1 THEN 5 ELSE h
\* Math.min(retryAfter * 1000, 30000) * (retryCount + 1)
RateLimitBackoffFlat(h, retryCount) == Min(RetryAfterSeconds(h) * 1000, 30000) * retryCount
RateLimitBackoffUncapped(h, retryCount) == RetryAfterSeconds(h) * 1000 * (retryCount + 1)
RateLimitBackoff(h, retryCount) == Min(RetryAfterSeconds(h) * 1000, 30000) * (retryCount + 1)
\* Math.random() * 1000, rounded down
Jitters == {0, 999}
RetryAfterHeaders == {-1, 1, 60}

\* the remote service: a pair is accepted when it is a token and a cookie of one
\* session that is still valid
Accepts(c) ==
  /\ c.token.prefix = "xoxc-" /\ c.cookie.prefix = "xoxd-"
  /\ c.token.id = c.cookie.id /\ c.token.id \in valid
Resp(k, e, h) == [kind |-> k, error |-> e, retryAfter |-> h]
Responses(c) ==
  {Resp("ratelimited", "ratelimited", h) : h \in RetryAfterHeaders}
  \cup (IF Accepts(c)
        THEN {Resp("ok", "", -1), Resp("error", "channel_not_found", -1),
              Resp("error", "", -1)}
        ELSE {Resp("auth", "invalid_auth", -1), Resp("auth", "token_expired", -1)})

\* tokenAge of checkTokenHealth
TokenAgeUnknown(c) == Infinity
TokenAge(c) == IF c.updatedAt = -1 THEN Infinity ELSE now - c.updatedAt
\* the object checkTokenHealth returns
ReportFlipped(c, refreshed) ==
  IF c = NoCreds THEN [reason |-> "no_tokens", healthy |-> FALSE, warning |-> FALSE,
                       critical |-> FALSE, refreshed |-> FALSE]
  ELSE IF refreshed THEN [reason |-> "refreshed", healthy |-> TRUE, warning |-> FALSE,
                          critical |-> FALSE, refreshed |-> TRUE]
  ELSE [reason |-> "age", healthy |-> TokenAge(c) < TOKEN_CRITICAL_AGE,
        warning |-> TokenAge(c) > TOKEN_WARNING_AGE,
        critical |-> TokenAge(c) < TOKEN_CRITICAL_AGE, refreshed |-> FALSE]
Report(c, refreshed) ==
  IF c = NoCreds THEN [reason |-> "no_tokens", healthy |-> FALSE, warning |-> FALSE,
                       critical |-> FALSE, refreshed |-> FALSE]
  ELSE IF refreshed THEN [reason |-> "refreshed", healthy |-> TRUE, warning |-> FALSE,
                          critical |-> FALSE, refreshed |-> TRUE]
  ELSE [reason |-> "age", healthy |-> TokenAge(c) < TOKEN_CRITICAL_AGE,
        warning |-> TokenAge(c) > TOKEN_WARNING_AGE,
        critical |-> TokenAge(c) > TOKEN_CRITICAL_AGE, refreshed |-> FALSE]

\* where checkTokenHealth returns to: the slackAPI call that started it goes on to
\* its fetch; the timer callback ends
HealthExit(t, rep) ==
  /\ task' = [task EXCEPT ![t].pc = IF t \in ApiTasks THEN "send" ELSE "idle",
                          ![t].health = rep]
  /\ running' = IF t \in ApiTasks THEN t ELSE "none"

\* the background timer (or handleTokenStatus) calls checkTokenHealth
HealthStart(t) ==
  /\ t \in MonTasks
  /\ running = "none"
  /\ task[t].pc = "idle"
  /\ task' = [task EXCEPT ![t].pc = "h_load", ![t].hcreds = NoCreds]
  /\ running' = t
  /\ UNCHANGED <<env, file, keychain, isMac, chrome, valid, refreshInProgress,
                 lastRefreshAttempt, now, loadSnap, lastLoad, prevLoad>>
  /\ UNCHANGED <<cacheVars, writeVars, serverVars>>

\* checkTokenHealth: loadTokens(false, silentLogger)
HealthLoad(t) == LoadStep(t, "h_load", "h_probe_load", "h_loaded", "hcreds")
HealthLoadProbe(t) == LoadProbeStep(t, "h_probe_load", "h_loaded", "hcreds")

\* Date.now() - lastRefreshAttempt > REFRESH_COOLDOWN
CooldownIgnored == TRUE
CooldownPassed == now - lastRefreshAttempt > REFRESH_COOLDOWN

\* checkTokenHealth from the age computation to the call of extractFromChrome
HealthCheck(t) ==
  /\ running = t
  /\ task[t].pc = "h_loaded"
  /\ LET c == task[t].hcreds IN
     IF c = NoCreds
     THEN /\ HealthExit(t, Report(c, FALSE))
          /\ UNCHANGED <<refreshInProgress, lastRefreshAttempt>>
     ELSE IF TokenAge(c) > TOKEN_WARNING_AGE /\ CooldownPassed
     THEN /\ lastRefreshAttempt' = now
          /\ IF refreshInProgress
             THEN /\ HealthExit(t, Report(c, FALSE))
                  /\ UNCHANGED refreshInProgress
             ELSE /\ task' = [task EXCEPT ![t].pc = "h_probe"]
                  /\ refreshInProgress' = EnterProbe(t).lock
                  /\ running' = EnterProbe(t).running
     ELSE /\ HealthExit(t, Report(c, FALSE))
          /\ UNCHANGED <<refreshInProgress, lastRefreshAttempt>>
  /\ UNCHANGED <<env, file, keychain, isMac, chrome, valid, now, loadSnap, lastLoad, prevLoad>>
  /\ UNCHANGED <<cacheVars, writeVars, serverVars>>

\* the probe returns inside checkTokenHealth
HealthProbe(t) ==
  /\ CanRun(t)
  /\ task[t].pc = "h_probe"
  /\ refreshInProgress' = LeaveProbe(ExtractFromChromeInternal)
  /\ LET r == ExtractFromChromeInternal IN
     IF r # NoPair
     THEN /\ \E ot, oc \in KcOutcomes : SaveTokens(r.token, r.cookie, ot, oc)
          /\ HealthExit(t, Report(task[t].hcreds, TRUE))
     ELSE /\ HealthExit(t, Report(task[t].hcreds, FALSE))
          /\ UNCHANGED <<file, keychain>>
  /\ UNCHANGED <<env, isMac, chrome, valid, lastRefreshAttempt, now, loadSnap, lastLoad, prevLoad>>
  /\ UNCHANGED <<cacheVars, writeVars, serverVars>>

Done(t, res) == [task EXCEPT ![t].pc = "done", ![t].result = res]

\* retryCount < maxRetries: the test in front of both backoff retries
CanRetryInclusive(r) == r.retryCount <= MaxRetries
CanRetry(r) == r.retryCount < MaxRetries

\* slackAPI(method, params, { ...options, retryCount: retryCount + 1 }): the
\* locals of the next invocation after a backoff wait
BackoffRetryFlat(r) == [r EXCEPT !.pc = "load", !.sleepMs = 0]
BackoffRetry(r) == [r EXCEPT !.pc = "load", !.retryCount = @ + 1, !.sleepMs = 0]

\* slackAPI(method, params, { ...options, retryOnAuthFail: false }): the locals
\* of the next invocation after a renewal; retryCount is the one of options
AuthRetryAgain(r) == [r EXCEPT !.pc = "load", !.renewed = TRUE]
AuthRetry(r) == [r EXCEPT !.pc = "load", !.retryOnAuthFail = FALSE, !.renewed = TRUE]
Ok == [kind |-> "ok", error |-> ""]
Err(e) == [kind |-> "error", error |-> e]
\* data.error || "Slack API error": the message of the error thrown for a
\* not-ok response ("" is a response without an error field)
RemoteErrorGeneric(e) == "Slack API error"
RemoteError(e) == IF e = "" THEN "Slack API error" ELSE e

\* a caller starts slackAPI(method, params) with default options
ApiStart(t) ==
  /\ t \in ApiTasks
  /\ running = "none"
  /\ task[t].pc = "idle"
  /\ task' = [task EXCEPT ![t] = [IdleTask EXCEPT !.pc = "load"]]
  /\ running' = t
  /\ UNCHANGED <<env, file, keychain, isMac, chrome, valid, refreshInProgress,
                 lastRefreshAttempt, now, loadSnap, lastLoad, prevLoad>>
  /\ UNCHANGED <<cacheVars, writeVars, serverVars>>

\* if (!creds): loadTokens returned null
NoCredsIgnored(r) == FALSE
NoCredsLoaded(r) == r.creds = NoCreds

\* slackAPI after loadTokens: no credentials throws; the first attempt calls
\* checkTokenHealth, whose body has no await and so runs before the fetch
ApiLoaded(t) ==
  /\ t \in ApiTasks
  /\ running = t
  /\ task[t].pc = "loaded"
  /\ IF NoCredsLoaded(task[t])
     THEN /\ task' = Done(t, Err("no_credentials"))
          /\ running' = "none"
     ELSE /\ task' = [task EXCEPT ![t].pc = IF task[t].retryCount = 0 THEN "h_load"
                                            ELSE "send"]
          /\ UNCHANGED running
  /\ UNCHANGED <<env, file, keychain, isMac, chrome, valid, refreshInProgress,
                 lastRefreshAttempt, now, loadSnap, lastLoad, prevLoad>>
  /\ UNCHANGED <<cacheVars, writeVars, serverVars>>

\* fetch is issued with the credentials loaded at the top of this attempt
ApiSend(t) ==
  /\ t \in ApiTasks
  /\ CanRun(t)
  /\ task[t].pc = "send"
  /\ task' = [task EXCEPT ![t].pc = "fetching", ![t].nReq = @ + 1, ![t].lastResp = NoResp]
  /\ running' = "none"
  /\ UNCHANGED <<env, file, keychain, isMac, chrome, valid, refreshInProgress,
                 lastRefreshAttempt, now, loadSnap, lastLoad, prevLoad>>
  /\ UNCHANGED <<cacheVars, writeVars, serverVars>>

\* fetch throws: catch (networkError)
ApiNetworkError(t, e, jitter) ==
  /\ t \in ApiTasks
  /\ running = "none"
  /\ task[t].pc = "fetching"
  /\ IF CanRetry(task[t]) /\ (IsRetryable(e) \/ MessageIncludesFetch(e))
     THEN task' = [task EXCEPT ![t].pc = "sleeping",
                               ![t].sleepMs = NetworkBackoff(task[t].retryCount) + jitter,
                               ![t].lastResp = Resp("network", e, -1),
                               ![t].rlOnly = -1, ![t].disturbed = TRUE,
                               ![t].netOnly = IF IsRetryable(e) /\ @ >= 0 THEN @ + 1 ELSE -1]
     ELSE task' = [Done(t, Err(e)) EXCEPT ![t].lastResp = Resp("network", e, -1),
                                          ![t].rlOnly = -1, ![t].disturbed = TRUE,
                                          ![t].netOnly = IF IsRetryable(e) /\ @ >= 0
                                                         THEN @ + 1 ELSE -1]
  /\ UNCHANGED <<env, file, keychain, isMac, chrome, valid, refreshInProgress,
                 lastRefreshAttempt, now, running, loadSnap, lastLoad, prevLoad>>
  /\ UNCHANGED <<cacheVars, writeVars, serverVars>>

\* the response arrives: ok, rate limit, auth failure (up to the call of
\* extractFromChrome) or another error
ApiResponse(t, resp, jitter) ==
  /\ t \in ApiTasks
  /\ running = "none"
  /\ task[t].pc = "fetching"
  /\ resp \in Responses(task[t].creds)
  /\ LET seen == [task EXCEPT ![t].lastResp = resp,
                              ![t].netOnly = -1,
                              ![t].rlOnly = IF resp.kind = "ratelimited" /\ @ >= 0 THEN @ + 1
                                            ELSE IF resp.kind = "ok" THEN @ ELSE -1,
                              ![t].disturbed = @ \/ resp.kind \in {"ratelimited", "error"}]
     IN
     IF resp.kind = "ok"
     THEN /\ task' = [seen EXCEPT ![t].pc = "done", ![t].result = Ok]
          /\ UNCHANGED <<refreshInProgress, running>>
     ELSE IF resp.error = "ratelimited" /\ CanRetry(task[t])
     THEN /\ task' = [seen EXCEPT ![t].pc = "sleeping",
                                  ![t].sleepMs = RateLimitBackoff(resp.retryAfter,
                                                                  task[t].retryCount) + jitter]
          /\ UNCHANGED <<refreshInProgress, running>>
     ELSE IF resp.error \in {"invalid_auth", "token_expired"} /\ task[t].retryOnAuthFail
     THEN IF refreshInProgress
          THEN /\ task' = [seen EXCEPT ![t].pc = "done", ![t].result = Err("tokens_expired")]
               /\ UNCHANGED <<refreshInProgress, running>>
          ELSE /\ task' = [seen EXCEPT ![t].pc = "probe_auth", ![t].authProbes = @ + 1]
               /\ refreshInProgress' = EnterProbe(t).lock
               /\ running' = EnterProbe(t).running
     ELSE /\ task' = [seen EXCEPT ![t].pc = "done", ![t].result = Err(RemoteError(resp.error))]
          /\ UNCHANGED <<refreshInProgress, running>>
  /\ UNCHANGED <<env, file, keychain, isMac, chrome, valid,
                 lastRefreshAttempt, now, loadSnap, lastLoad, prevLoad>>
  /\ UNCHANGED <<cacheVars, writeVars, serverVars>>

\* the probe returns on the auth-failure path: a pair is saved and the call is
\* made again with retryOnAuthFail false; no pair throws the tokens-expired error
ApiAuthProbe(t) ==
  /\ t \in ApiTasks
  /\ CanRun(t)
  /\ task[t].pc = "probe_auth"
  /\ refreshInProgress' = LeaveProbe(ExtractFromChromeInternal)
  /\ LET r == ExtractFromChromeInternal IN
     IF r # NoPair
     THEN /\ \E ot, oc \in KcOutcomes : SaveTokens(r.token, r.cookie, ot, oc)
          /\ task' = [task EXCEPT ![t] = AuthRetry(task[t])]
          /\ running' = t
     ELSE /\ task' = Done(t, Err("tokens_expired"))
          /\ running' = "none"
          /\ UNCHANGED <<file, keychain>>
  /\ UNCHANGED <<env, isMac, chrome, valid, lastRefreshAttempt, now, loadSnap, lastLoad, prevLoad>>
  /\ UNCHANGED <<cacheVars, writeVars, serverVars>>

\* await sleep(backoff + jitter) ends: slackAPI(..., retryCount + 1)
ApiWake(t) ==
  /\ t \in ApiTasks
  /\ running = "none"
  /\ task[t].pc = "sleeping"
  /\ task' = [task EXCEPT ![t] = BackoffRetry(task[t])]
  /\ running' = t
  /\ UNCHANGED <<env, file, keychain, isMac, chrome, valid, refreshInProgress,
                 lastRefreshAttempt, now, loadSnap, lastLoad, prevLoad>>
  /\ UNCHANGED <<cacheVars, writeVars, serverVars>>

\* an hour passes (a call chain lasts minutes at most: no hour passes inside one)
Tick ==
  /\ running = "none"
  /\ \A t \in ApiTasks : task[t].pc \in {"idle", "done"}
  /\ now < StartNow + MaxTicks
  /\ now' = now + 1
  /\ UNCHANGED <<env, file, keychain, isMac, chrome, valid, refreshInProgress,
                 lastRefreshAttempt, running, task, loadSnap, lastLoad, prevLoad>>
  /\ UNCHANGED <<cacheVars, writeVars, serverVars>>

Init ==
  /\ CacheParked /\ WriteParked /\ ServerParked
  /\ env \in {NoPair, GoodPair("E")}
  /\ file \in {NoTokenFile} \cup {TokenFile(Tok("xoxc-", "F"), Tok("xoxd-", "F"), StartNow - a) :
                                    a \in {1, 11}}
  /\ isMac \in BOOLEAN
  /\ keychain \in IF isMac THEN {NoPair, GoodPair("K")} ELSE {NoPair}
  /\ chrome \in IF isMac THEN {NoPair, GoodPair("C"), Pair(Tok("xoxc-", "C"), Tok("xoxb-", "C"))}
                ELSE {NoPair}
  /\ valid \in {{"E", "F", "K", "C"}, {"C"}}
  /\ refreshInProgress = FALSE
  /\ lastRefreshAttempt = 0
  /\ now = StartNow
  /\ running = "none"
  /\ task = [t \in Tasks |-> IdleTask]
  /\ loadSnap = Snap
  /\ lastLoad = NoLoad
  /\ prevLoad = NoLoad

\* one slackAPI call chain against every kind of response
Next ==
  \/ ApiStart("a1")
  \/ \E t \in ApiTasks : Load(t)
  \/ \E t \in ApiTasks : LoadProbe(t)
  \/ \E t \in ApiTasks : ApiLoaded(t)
  \/ \E t \in ApiTasks : HealthLoad(t)
  \/ \E t \in ApiTasks : HealthCheck(t)
  \/ \E t \in ApiTasks : HealthProbe(t)
  \/ \E t \in ApiTasks : ApiSend(t)
  \/ \E t \in ApiTasks, e \in NetworkErrors, j \in Jitters : ApiNetworkError(t, e, j)
  \/ \E t \in ApiTasks, h \in RetryAfterHeaders, j \in Jitters,
        k \in {"ok", "ratelimited", "auth", "error"},
        e \in {"", "ratelimited", "invalid_auth", "token_expired", "channel_not_found"} :
        ApiResponse(t, Resp(k, e, h), j)
  \/ \E t \in ApiTasks : ApiAuthProbe(t)
  \/ \E t \in ApiTasks : ApiWake(t)
  \/ Tick

Spec == Init /\ [][Next]_vars

\* two slackAPI call chains and the background health check, interleaved, with
\* a remote that answers every request (no rate limit, no transport error)
NextRace ==
  \/ \E t \in ApiTasks : ApiStart(t)
  \/ \E t \in ApiTasks : Load(t)
  \/ \E t \in ApiTasks : LoadProbe(t)
  \/ \E t \in ApiTasks : ApiLoaded(t)
  \/ \E t \in MonTasks : HealthStart(t)
  \/ \E t \in ApiTasks \cup MonTasks : HealthLoad(t)
  \/ \E t \in MonTasks : HealthLoadProbe(t)
  \/ \E t \in ApiTasks \cup MonTasks : HealthCheck(t)
  \/ \E t \in ApiTasks \cup MonTasks : HealthProbe(t)
  \/ \E t \in ApiTasks : ApiSend(t)
  \/ \E t \in ApiTasks, k \in {"ok", "auth", "error"},
        e \in {"", "invalid_auth", "channel_not_found"} :
        ApiResponse(t, Resp(k, e, -1), 0)
  \/ \E t \in ApiTasks : ApiAuthProbe(t)

SpecRace == Init /\ [][NextRace]_vars

\* the background health check alone, over the hours: token files of every age
\* around the two thresholds
FileAges == {5, 9, 11}
InitHealth ==
  /\ CacheParked /\ WriteParked /\ ServerParked
  /\ env \in {NoPair, GoodPair("E")}
  /\ file \in {NoTokenFile} \cup {TokenFile(Tok("xoxc-", "F"), Tok("xoxd-", "F"), StartNow - a) :
                                    a \in FileAges}
  /\ isMac \in BOOLEAN
  /\ keychain \in IF isMac THEN {NoPair, GoodPair("K")} ELSE {NoPair}
  /\ chrome \in IF isMac THEN {NoPair, GoodPair("C")} ELSE {NoPair}
  /\ valid = {"E", "F", "K", "C"}
  /\ refreshInProgress = FALSE
  /\ lastRefreshAttempt = 0
  /\ now = StartNow
  /\ running = "none"
  /\ task = [t \in Tasks |-> IdleTask]
  /\ loadSnap = Snap
  /\ lastLoad = NoLoad
  /\ prevLoad = NoLoad

NextHealth ==
  \/ \E t \in MonTasks : HealthStart(t)
  \/ \E t \in MonTasks : HealthLoad(t)
  \/ \E t \in MonTasks : HealthLoadProbe(t)
  \/ \E t \in MonTasks : HealthCheck(t)
  \/ \E t \in MonTasks : HealthProbe(t)
  \/ Tick

SpecHealth == InitHealth /\ [][NextHealth]_vars


(***************************************************************************)
(* CallTool dispatcher: src/server.js (src/src/server-http.js:646-696)     *)
(***************************************************************************)
\* a tool whose handler awaits slackAPI and lets its error propagate, the tool
\* whose handler catches it, and a name the switch does not know
ToolNames == {"slack_send_message", "slack_health_check", "slack_no_such_tool"}
ToolResult(name, isError, text) ==
  [name |-> name, phase |-> "returned", isError |-> isError, text |-> text]
\* catch (error) of the dispatcher: return { content, isError: true }
DispatchRethrow(name, e) == [name |-> name, phase |-> "escaped", isError |-> FALSE, text |-> e]
DispatchCatch(name, e) == ToolResult(name, TRUE, e)

\* the request handler is entered with request.params.name
ToolCall(t, name) ==
  /\ t \in ApiTasks
  /\ running = "none"
  /\ task[t].pc = "idle"
  /\ tool.phase = "none"
  /\ IF name = "slack_send_message"
     THEN /\ tool' = [NoToolCall EXCEPT !.name = name, !.phase = "running"]
          /\ task' = [task EXCEPT ![t] = [IdleTask EXCEPT !.pc = "load"]]
          /\ running' = t
     ELSE IF name = "slack_health_check"
     THEN /\ tool' = [NoToolCall EXCEPT !.name = name, !.phase = "running"]
          /\ task' = [task EXCEPT ![t] = [IdleTask EXCEPT !.pc = "t_load"]]
          /\ running' = t
     ELSE /\ tool' = ToolResult(name, TRUE, "Unknown tool")
          /\ UNCHANGED <<task, running>>
  /\ UNCHANGED <<env, file, keychain, isMac, chrome, valid, refreshInProgress,
                 lastRefreshAttempt, now, loadSnap, lastLoad, prevLoad>>
  /\ UNCHANGED <<cacheVars, writeVars, proc, http, sideVars>>

\* handleHealthCheck: loadTokens()
ToolLoad(t) == LoadStep(t, "t_load", "t_probe_load", "t_loaded", "creds")
ToolLoadProbe(t) == LoadProbeStep(t, "t_probe_load", "t_loaded", "creds")

\* handleHealthCheck after loadTokens: no credentials is returned as an error
\* result, otherwise slackAPI("auth.test") is called
ToolLoaded(t) ==
  /\ running = t
  /\ task[t].pc = "t_loaded"
  /\ IF task[t].creds = NoCreds
     THEN /\ tool' = ToolResult(tool.name, TRUE, "NO CREDENTIALS")
          /\ task' = [task EXCEPT ![t].pc = "idle"]
          /\ running' = "none"
     ELSE /\ task' = [task EXCEPT ![t] = [IdleTask EXCEPT !.pc = "load"]]
          /\ UNCHANGED <<tool, running>>
  /\ UNCHANGED <<env, file, keychain, isMac, chrome, valid, refreshInProgress,
                 lastRefreshAttempt, now, loadSnap, lastLoad, prevLoad>>
  /\ UNCHANGED <<cacheVars, writeVars, proc, http, sideVars>>

\* the slackAPI promise settles: the handler returns its content, or catches the
\* error itself (handleHealthCheck), or the error reaches the dispatcher's catch
ToolReturn(t) ==
  /\ running = "none"
  /\ tool.phase = "running"
  /\ task[t].pc = "done"
  /\ tool' = IF task[t].result = Ok THEN ToolResult(tool.name, FALSE, "")
             ELSE IF tool.name = "slack_health_check"
             THEN ToolResult(tool.name, TRUE, task[t].result.error)
             ELSE DispatchCatch(tool.name, task[t].result.error)
  /\ UNCHANGED storeVars
  /\ UNCHANGED <<cacheVars, writeVars, proc, http, sideVars>>

NextTool ==
  \/ \E t \in {"a1"}, name \in ToolNames : ToolCall(t, name)
  \/ \E t \in ApiTasks : ToolLoad(t)
  \/ \E t \in ApiTasks : ToolLoadProbe(t)
  \/ \E t \in ApiTasks : ToolLoaded(t)
  \/ \E t \in ApiTasks : ToolReturn(t)
  \/ \E t \in ApiTasks : Load(t)
  \/ \E t \in ApiTasks : LoadProbe(t)
  \/ \E t \in ApiTasks : ApiLoaded(t)
  \/ \E t \in ApiTasks : HealthLoad(t)
  \/ \E t \in ApiTasks : HealthCheck(t)
  \/ \E t \in ApiTasks : HealthProbe(t)
  \/ \E t \in ApiTasks : ApiSend(t)
  \/ \E t \in ApiTasks, e \in NetworkErrors, j \in Jitters : ApiNetworkError(t, e, j)
  \/ \E t \in ApiTasks, h \in RetryAfterHeaders, j \in Jitters,
        k \in {"ok", "ratelimited", "auth", "error"},
        e \in {"", "ratelimited", "invalid_auth", "token_expired", "channel_not_found"} :
        ApiResponse(t, Resp(k, e, h), j)
  \/ \E t \in ApiTasks : ApiAuthProbe(t)
  \/ \E t \in ApiTasks : ApiWake(t)

SpecTool == Init /\ [][NextTool]_vars

(***************************************************************************)
(* Server process: main of src/server.js (src/src/server-http.js:698-737)  *)
(***************************************************************************)
\* backgroundTimer.unref(): the timer no longer keeps the event loop alive
UnrefForgotten(timer) == timer
Unref(timer) == "unref"

\* what keeps the Node event loop, and so the process, alive: the open stdin of
\* the transport, a referenced timer, code that is running, a pending fetch, a
\* pending sleep
LoopAlive ==
  \/ proc.stdin = "open"
  \/ proc.timer = "ref"
  \/ running # "none"
  \/ \E t \in Tasks : task[t].pc \in {"fetching", "sleeping"}

\* main: loadTokens()
MainLoad(t) ==
  /\ proc.alive /\ ~proc.started
  /\ ~lastLoad.called
  /\ LoadStart(t, FALSE)
\* main: checkTokenHealth when credentials were found
MainHealth(t) ==
  /\ proc.alive /\ ~proc.started
  /\ lastLoad.called /\ lastLoad.result # NoCreds
  /\ task[t].health = NoReport
  /\ HealthStart(t)
\* main: setInterval, unref, server.connect(new StdioServerTransport())
MainListen ==
  /\ proc.alive /\ ~proc.started
  /\ running = "none"
  /\ lastLoad.called
  /\ \A t \in MonTasks : task[t].pc = "idle"
  /\ lastLoad.result = NoCreds \/ \E t \in MonTasks : task[t].health # NoReport
  /\ proc' = [proc EXCEPT !.started = TRUE, !.stdin = "open", !.timer = Unref("ref")]
  /\ UNCHANGED <<cacheVars, writeVars, storeVars, tool, http, sideVars>>
\* the background timer fires (only a loop that something else keeps alive waits
\* for an unreferenced timer)
TimerFire(t) ==
  /\ proc.alive /\ proc.started
  /\ proc.timer # "none"
  /\ LoopAlive
  /\ HealthStart(t)
\* a request arrives on stdin and its handler calls slackAPI
RequestArrives(t) ==
  /\ proc.alive /\ proc.started
  /\ proc.stdin = "open"
  /\ ApiStart(t)
\* the client disconnects: stdin ends
StdinEnd ==
  /\ proc.alive /\ proc.started
  /\ proc.stdin = "open"
  /\ proc' = [proc EXCEPT !.stdin = "ended"]
  /\ UNCHANGED <<cacheVars, writeVars, storeVars, tool, http, sideVars>>
\* the event loop has nothing left that is referenced: the process exits
ProcessExit ==
  /\ proc.alive /\ proc.started
  /\ ~LoopAlive
  /\ proc' = [proc EXCEPT !.alive = FALSE]
  /\ UNCHANGED <<cacheVars, writeVars, storeVars, tool, http, sideVars>>

InitExit ==
  /\ CacheParked /\ WriteParked /\ SideParked
  /\ tool = NoToolCall /\ http = NoHttp
  /\ proc = [NoProc EXCEPT !.alive = TRUE]
  /\ env \in {NoPair, GoodPair("E")}
  /\ file \in {NoTokenFile, TokenFile(Tok("xoxc-", "F"), Tok("xoxd-", "F"), StartNow - 11)}
  /\ isMac \in BOOLEAN
  /\ keychain = NoPair
  /\ chrome \in IF isMac THEN {NoPair, GoodPair("C")} ELSE {NoPair}
  /\ valid \in {{"E", "F", "K", "C"}, {"C"}}
  /\ refreshInProgress = FALSE
  /\ lastRefreshAttempt = 0
  /\ now = StartNow
  /\ running = "none"
  /\ task = [t \in Tasks |-> IdleTask]
  /\ loadSnap = Snap
  /\ lastLoad = NoLoad
  /\ prevLoad = NoLoad

\* the steps of main's loadTokens and of the health checks
BackgroundProgress ==
  \/ \E t \in LoadTasks : Load(t)
  \/ \E t \in LoadTasks : LoadProbe(t)
  \/ \E t \in LoadTasks : LoadReturn(t)
  \/ \E t \in MonTasks : HealthLoad(t)
  \/ \E t \in MonTasks : HealthLoadProbe(t)
  \/ \E t \in MonTasks : HealthCheck(t)
  \/ \E t \in MonTasks : HealthProbe(t)
\* the steps of the slackAPI call a request started
ApiProgress ==
  \/ \E t \in ApiTasks : Load(t)
  \/ \E t \in ApiTasks : LoadProbe(t)
  \/ \E t \in ApiTasks : ApiLoaded(t)
  \/ \E t \in ApiTasks : HealthLoad(t)
  \/ \E t \in ApiTasks : HealthCheck(t)
  \/ \E t \in ApiTasks : HealthProbe(t)
  \/ \E t \in ApiTasks : ApiSend(t)
  \/ \E t \in ApiTasks : ApiNetworkError(t, "ECONNRESET", 0)
  \/ \E t \in ApiTasks, k \in {"ok", "ratelimited", "auth", "error"},
        e \in {"", "ratelimited", "invalid_auth", "channel_not_found"} :
        ApiResponse(t, Resp(k, e, -1), 0)
  \/ \E t \in ApiTasks : ApiAuthProbe(t)
  \/ \E t \in ApiTasks : ApiWake(t)

NextExit ==
  \/ \E t \in LoadTasks : MainLoad(t)
  \/ \E t \in MonTasks : MainHealth(t)
  \/ MainListen
  \/ \E t \in MonTasks : TimerFire(t)
  \/ RequestArrives("a1")
  \/ StdinEnd
  \/ ProcessExit
  \/ BackgroundProgress
  \/ ApiProgress

\* synchronous code runs to its end, the event loop runs every callback that
\* becomes ready (a fetch settles with a response or a transport error, a sleep
\* ends) however often the timer fires, and a process with an empty loop exits
SpecExit ==
  /\ InitExit /\ [][NextExit]_vars
  /\ WF_vars(BackgroundProgress)
  /\ SF_vars(ApiProgress)
  /\ WF_vars(ProcessExit)

(***************************************************************************)
(* REST server: src/web-server.js (src/src/server-http.js:150-426)         *)
(***************************************************************************)
MaxHeaderLen == 3
\* a header value is a string, here a sequence of pieces: the piece "Bearer " and
\* pieces of key material; API_KEY is the string of two pieces
API_KEY == <<"k1", "k2">>
HeaderPieces == {"Bearer ", "k1", "k2"}
Header(v) == [present |-> TRUE, value |-> v]
\* req.headers.authorization: absent, or a field value, which reaches the
\* handler without trailing whitespace
Headers ==
  {NoHeader} \cup
  {Header(v) : v \in {u \in UNION {[1..n -> HeaderPieces] : n \in 0..MaxHeaderLen} :
                        Len(u) = 0 \/ u[Len(u)] # "Bearer "}}

\* String.prototype.replace(piece, ""): the first occurrence is removed
ReplaceFirst(v, piece) ==
  LET at == {i \in 1..Len(v) : v[i] = piece} IN
  IF at = {} THEN v
  ELSE LET i == CHOOSE k \in at : \A l \in at : k <= l
       IN SubSeq(v, 1, i - 1) \o SubSeq(v, i + 1, Len(v))

\* authenticate: authHeader?.replace("Bearer ", "") !== API_KEY answers 401
Authenticate(h) == h.present /\ ReplaceFirst(h.value, "Bearer ") = API_KEY

\* app.get / app.post (path, authenticate, handler)
Routes ==
  [r \in {<<"GET", "/token-status">>, <<"GET", "/health">>, <<"POST", "/refresh">>,
          <<"GET", "/conversations">>, <<"GET", "/conversations/:id/history">>,
          <<"GET", "/conversations/:id/full">>, <<"GET", "/conversations/:id/thread/:ts">>,
          <<"GET", "/search">>, <<"POST", "/messages">>, <<"GET", "/users">>,
          <<"GET", "/users/:id">>} |->
     CASE r = <<"GET", "/token-status">> -> "handleTokenStatus"
       [] r = <<"GET", "/health">> -> "handleHealthCheck"
       [] r = <<"POST", "/refresh">> -> "handleRefreshTokens"
       [] r = <<"GET", "/conversations">> -> "handleListConversations"
       [] r = <<"GET", "/conversations/:id/history">> -> "handleConversationsHistory"
       [] r = <<"GET", "/conversations/:id/full">> -> "handleGetFullConversation"
       [] r = <<"GET", "/conversations/:id/thread/:ts">> -> "handleGetThread"
       [] r = <<"GET", "/search">> -> "handleSearchMessages"
       [] r = <<"POST", "/messages">> -> "handleSendMessage"
       [] r = <<"GET", "/users">> -> "handleListUsers"
       [] OTHER -> "handleUsersInfo"]
\* the routes that answer 400 when a required parameter is missing
NeedsParams == {<<"GET", "/search">>, <<"POST", "/messages">>}
WebMethods == {"GET", "POST", "OPTIONS"}
WebPaths == {r[2] : r \in DOMAIN Routes} \cup {"/", "/nowhere"}

\* one request through the middleware chain: CORS (OPTIONS is answered 200), the
\* root endpoint, then authenticate and the route's handler; throws: the handler
\* threw; complete: the required parameters are there
WebRequest(m, p, h, throws, complete) ==
  /\ http = NoHttp
  /\ http' =
       LET req == [NoHttp EXCEPT !.method = m, !.path = p, !.header = h] IN
       IF m = "OPTIONS" THEN [req EXCEPT !.status = 200]
       ELSE IF <<m, p>> = <<"GET", "/">> THEN [req EXCEPT !.status = 200, !.invoked = "root"]
       ELSE IF <<m, p>> \notin DOMAIN Routes THEN [req EXCEPT !.status = 404]
       ELSE IF ~Authenticate(h) THEN [req EXCEPT !.status = 401]
       ELSE IF <<m, p>> \in NeedsParams /\ ~complete THEN [req EXCEPT !.status = 400]
       ELSE [req EXCEPT !.status = IF throws THEN 500 ELSE 200,
                        !.invoked = Routes[<<m, p>>]]
  /\ UNCHANGED <<cacheVars, writeVars, storeVars, tool, proc, sideVars>>

\* the response has been sent: the server waits for the next request
WebRespond ==
  /\ http # NoHttp
  /\ http' = NoHttp
  /\ UNCHANGED <<cacheVars, writeVars, storeVars, tool, proc, sideVars>>

InitWeb == CacheParked /\ WriteParked /\ StoreParked /\ ServerParked
NextWeb ==
  \/ \E m \in WebMethods, p \in WebPaths, h \in Headers, throws, complete \in BOOLEAN :
       WebRequest(m, p, h, throws, complete)
  \/ WebRespond
SpecWeb == InitWeb /\ [][NextWeb]_vars

(***************************************************************************)
(* Specifications                                                          *)
(***************************************************************************)
InitCache == CacheInit /\ WriteParked /\ StoreParked /\ ServerParked
NextCache == CacheNext
SpecCache == InitCache /\ [][NextCache]_vars

InitWrite == WriteInit /\ CacheParked /\ StoreParked /\ ServerParked
NextWrite == WriteNext
SpecWrite == InitWrite /\ [][NextWrite]_vars

(***************************************************************************)
(* Properties of atomicWriteSync (SpecWrite)                               *)
(***************************************************************************)

C7_TargetNeverPartial ==
  /\ \/ disk[TargetPath] = wPrior
     \/ disk[TargetPath].complete /\ disk[TargetPath].data = wContent
  /\ wpc = "thrown" => wFailed # "none" /\ disk[TargetPath] = wPrior
  /\ wpc = "returned" =>
       wFailed = "none" /\ disk[TargetPath].complete /\ disk[TargetPath].data = wContent

\* C7 witness: the process was killed while the temporary file was partly written,
\* and an existing target still holds its prior content.
C7_Witness ==
  /\ wpc = "crashed"
  /\ Exists(disk, TempPath(TargetPath)) /\ ~disk[TempPath(TargetPath)].complete
  /\ Exists(disk, TargetPath) /\ disk[TargetPath] = wPrior /\ wPrior.data # wContent

(***************************************************************************)
(* Properties of LRUCache (SpecCache)                                      *)
(***************************************************************************)

\* C8: the cache never holds more than maxSize entries (maxSize >= 1), whatever
\* gets and sets were made, sets of present keys included.
C8_SizeBounded == MaxSize >= 1 => Len(cache) <= MaxSize

\* C8 witness: a set of a key that was already present, made on a full cache.
C8_Witness ==
  lastOp.kind = "set" /\ lastOp.setAt # -1 /\ Len(cache) = MaxSize /\ lastOp.evicted = {}

\* C9: a get made more than ttl after the key's last set returns null and removes
\* the entry; every entry's expiry is its last set time plus ttl, get hits or not.
C9_ExpiryFixedAtSet ==
  /\ (lastOp.kind = "get" /\ lastOp.setAt # -1 /\ lastOp.at > lastOp.setAt + TtlMs)
       => lastOp.value = NULL /\ ~MapHas(cache, lastOp.key)
  /\ \A i \in 1..Len(cache) : cache[i].expiry = setAt[cache[i].key] + TtlMs

\* C9 witness: a get of a key the cache held, made after its ttl, missed.
C9_Witness ==
  /\ lastOp.kind = "get" /\ lastOp.setAt # -1
  /\ lastOp.at > lastOp.setAt + TtlMs /\ lastOp.value = NULL

\* C10: a set of a new key on a full cache removes exactly the key used least
\* recently (by set or get hit) and leaves every other entry as it was.
C10_EvictsLRU ==
  [][(lastOp'.kind = "set" /\ ~MapHas(cache, lastOp'.key) /\ Len(cache) = MaxSize)
       => /\ useOrder # <<>>
          /\ MapKeys(cache') = (MapKeys(cache) \ {Head(useOrder)}) \cup {lastOp'.key}
          /\ \A j \in MapKeys(cache) \ {Head(useOrder)} :
               MapGet(cache', j) = MapGet(cache, j)]_vars

\* C10 witness: the evicted key had been set later than a key that stayed, which
\* a get hit had promoted (set x, set y, get x, set z evicts y).
C10_Witness ==
  /\ lastOp.kind = "set" /\ lastOp.evicted # {}
  /\ \E j \in MapKeys(cache) \ {lastOp.key} :
       setAt[j] # -1 /\ setAt[j] < lastOp.evictedSetAt

(***************************************************************************)
(* Properties of loadTokens (SpecLoad)                                     *)
(***************************************************************************)
EnvFull(sn) == Truthy(sn.env.token) /\ Truthy(sn.env.cookie)
FileFull(sn) == sn.file.state = "ok" /\ Truthy(sn.file.token) /\ Truthy(sn.file.cookie)
KeychainFull(sn) == isMac /\ Truthy(sn.keychain.token) /\ Truthy(sn.keychain.cookie)
ChromeFull(sn) ==
  isMac /\ sn.chrome.token.prefix = "xoxc-" /\ sn.chrome.cookie.prefix = "xoxd-"

\* C1: loadTokens(false) returns the pair of the first of environment, file,
\* keychain, Chrome extraction that holds a complete pair (null if none does), and
\* two calls that start from the same sources return the same result.
C1_HighestPriorityWins ==
  /\ (lastLoad.called /\ ~lastLoad.force) =>
       LET sn == lastLoad.snap
           r == lastLoad.result
       IN /\ r.source = "environment" <=> EnvFull(sn)
          /\ r.source = "file" <=> ~EnvFull(sn) /\ FileFull(sn)
          /\ r.source = "keychain" <=> ~EnvFull(sn) /\ ~FileFull(sn) /\ KeychainFull(sn)
          /\ r.source = "chrome-auto" <=>
               ~EnvFull(sn) /\ ~FileFull(sn) /\ ~KeychainFull(sn) /\ ChromeFull(sn)
          /\ r = NoCreds <=>
               ~EnvFull(sn) /\ ~FileFull(sn) /\ ~KeychainFull(sn) /\ ~ChromeFull(sn)
          /\ r.source = "environment" => Pair(r.token, r.cookie) = sn.env
          /\ r.source = "file" =>
               /\ Pair(r.token, r.cookie) = Pair(sn.file.token, sn.file.cookie)
               /\ r.updatedAt = sn.file.updatedAt
          /\ r.source = "keychain" => Pair(r.token, r.cookie) = sn.keychain
          /\ r.source = "chrome-auto" => Pair(r.token, r.cookie) = sn.chrome
  /\ (lastLoad.called /\ prevLoad.called /\ ~lastLoad.force /\ ~prevLoad.force
        /\ lastLoad.snap = prevLoad.snap)
       => lastLoad.result = prevLoad.result

\* C1 witness: all four sources hold a pair, loadTokens(false) was called twice on
\* them and returned the environment pair.
C1_Witness ==
  /\ lastLoad.called /\ prevLoad.called /\ ~lastLoad.force /\ ~prevLoad.force
  /\ lastLoad.snap = prevLoad.snap
  /\ EnvFull(lastLoad.snap) /\ FileFull(lastLoad.snap)
  /\ KeychainFull(lastLoad.snap) /\ ChromeFull(lastLoad.snap)
  /\ lastLoad.result.source = "environment"

\* exactly one of the two values is present
IsHalf(p) == (p.token = NoTok) # (p.cookie = NoTok)

\* C12: loadTokens returns null or a pair whose token and cookie are both
\* present, and a source holding one half only is skipped: the next source that
\* holds a pair supplies the result
C12_NeverHalfPair ==
  lastLoad.called =>
    LET sn == lastLoad.snap
        r == lastLoad.result
    IN /\ r # NoCreds => (r.token # NoTok /\ r.cookie # NoTok)
       /\ r.source \in {"none", "environment", "file", "keychain", "chrome-auto"}
       /\ ~lastLoad.force =>
            /\ IsHalf(sn.env)
                 => /\ r.source # "environment"
                    /\ FileFull(sn) => r.source = "file"
            /\ (~EnvFull(sn) /\ sn.file.state = "ok" /\ IsHalf(sn.file))
                 => /\ r.source # "file"
                    /\ KeychainFull(sn) => r.source = "keychain"
            /\ (~EnvFull(sn) /\ ~FileFull(sn) /\ isMac /\ IsHalf(sn.keychain))
                 => /\ r.source # "keychain"
                    /\ ChromeFull(sn) => r.source = "chrome-auto"
\* the environment and the file held one half each, the keychain a pair, which
\* loadTokens returned
C12_Witness ==
  /\ lastLoad.called /\ ~lastLoad.force
  /\ IsHalf(lastLoad.snap.env)
  /\ lastLoad.snap.file.state = "ok" /\ IsHalf(lastLoad.snap.file)
  /\ KeychainFull(lastLoad.snap)
  /\ lastLoad.result.source = "keychain"


\* C2 (as stated): a slackAPI call that met an auth failure, whose extraction from
\* Chrome then succeeded, and whose remote accepts the extracted pair and met no
\* other failure, ends with the successful result
C2_Original ==
  \A t \in ApiTasks :
    (task[t].pc = "done" /\ task[t].renewed /\ ~task[t].disturbed /\ "C" \in valid)
      => task[t].result = Ok

\* C3 (as stated): two slackAPI calls in flight together that both ask for
\* renewal after an auth failure cause at most one invocation of the probe (the
\* environment holds no pair, so the second call loaded the rejected pair before
\* the first one renewed it)
C3_Original ==
  \A t1, t2 \in ApiTasks :
    (t1 # t2 /\ env = NoPair
     /\ task[t1].pc \notin {"idle", "done"} /\ task[t2].pc \notin {"idle", "done"})
      => task[t1].authProbes + task[t2].authProbes <= 1

C5_RateLimitBackoff ==
  \A t \in ApiTasks :
    LET r == task[t]
        k == r.rlOnly
        ra == IF r.lastResp.retryAfter = -1 THEN 5 ELSE r.lastResp.retryAfter
    IN
    /\ (r.pc = "sleeping" /\ k >= 1)
         => /\ k <= 3
            /\ r.lastResp.kind = "ratelimited"
            /\ r.sleepMs >= Min(ra * 1000, 30000) * k
            /\ (r.lastResp.retryAfter = -1 => r.sleepMs >= 5000 * k)
    /\ (r.pc = "done" /\ k = 3 /\ r.lastResp.kind = "ok") => r.result = Ok
    /\ k >= 4 => (k = 4 /\ r.pc = "done" /\ r.result = Err("ratelimited"))
\* three rate-limited responses, three waits, then the successful result
C5_Witness ==
  \E t \in ApiTasks :
    /\ task[t].pc = "done"
    /\ task[t].rlOnly = 3
    /\ task[t].retryCount = 3
    /\ task[t].result = Ok


(***************************************************************************)
(* Health checks                                                           *)
(***************************************************************************)
\* the check of task t resolved credentials stamped more than the critical
\* threshold ago
AgedCritical(t) ==
  /\ task[t].hcreds # NoCreds
  /\ task[t].hcreds.updatedAt # -1
  /\ now - task[t].hcreds.updatedAt > TOKEN_CRITICAL_AGE
\* this step is the return of the check of task t
HealthReturns(t) ==
  /\ task[t].pc \in {"h_loaded", "h_probe"}
  /\ task'[t].pc \notin {"h_loaded", "h_probe"}
\* a check on credentials older than the critical threshold attempts a renewal in
\* that same check exactly when more than the cooldown has passed since the last
\* attempt
AttemptsWhenCooledDown(t) ==
  (AgedCritical(t) /\ task[t].pc = "h_loaded" /\ task'[t].pc # "h_loaded")
    => IF now - lastRefreshAttempt > REFRESH_COOLDOWN
       THEN task'[t].pc = "h_probe" /\ lastRefreshAttempt' = now
       ELSE task'[t].pc # "h_probe" /\ lastRefreshAttempt' = lastRefreshAttempt

\* C11 (as stated): a check on credentials older than the critical threshold
\* reports critical, and attempts a renewal in that same check when more than the
\* cooldown has passed since the last attempt
C11_Original ==
  [][\A t \in MonTasks :
       /\ (AgedCritical(t) /\ HealthReturns(t)) => task'[t].health.critical
       /\ AttemptsWhenCooledDown(t)]_vars

\* C11 (amended): such a check attempts the renewal when the cooldown has passed;
\* it reports critical and not healthy unless that renewal extracted a pair, and
\* then it reports healthy and refreshed, with the extracted pair in the token file
C11_CriticalUnlessRefreshed ==
  [][\A t \in MonTasks :
       /\ (AgedCritical(t) /\ HealthReturns(t))
            => LET rep == task'[t].health IN
               IF task[t].pc = "h_probe" /\ isMac /\ chrome = GoodPair("C")
               THEN /\ rep.refreshed /\ rep.healthy /\ ~rep.critical
                    /\ file' = TokenFile(chrome.token, chrome.cookie, now)
               ELSE /\ ~rep.refreshed /\ rep.critical /\ ~rep.healthy /\ rep.warning
                    /\ file' = file
       /\ AttemptsWhenCooledDown(t)]_vars
\* a check on an aged token file attempted a renewal, extracted nothing and
\* reported critical
C11_Witness ==
  \E t \in MonTasks :
    /\ task[t].pc = "idle"
    /\ AgedCritical(t)
    /\ lastRefreshAttempt = now
    /\ task[t].health.critical
    /\ ~task[t].health.refreshed


(***************************************************************************)
(* Servers                                                                 *)
(***************************************************************************)
\* C13: a dispatched tool call never lets an exception escape; when its handler
\* failed (slackAPI ended with an error) or the tool name is unknown, the result
\* it returns has isError true
C13_StructuredFailure ==
  /\ tool.phase # "escaped"
  /\ tool.phase = "returned" =>
       /\ tool.name \notin {"slack_send_message", "slack_health_check"} => tool.isError
       /\ task["a1"].result.kind = "error" => tool.isError
       /\ (tool.name = "slack_send_message" /\ task["a1"].result.kind = "error")
            => tool.text = task["a1"].result.error
\* slackAPI threw ratelimited after its three retries and the dispatcher returned
\* an error result
C13_Witness ==
  /\ tool.phase = "returned"
  /\ tool.name = "slack_send_message"
  /\ task["a1"].retryCount = 3
  /\ task["a1"].result = Err("ratelimited")
  /\ tool.isError

\* C14: once the transport has closed (stdin ended) the server process eventually
\* exits, although the background health-check timer is still set
C14_ExitsAfterClose == (proc.started /\ proc.stdin = "ended") ~> ~proc.alive
\* the process has exited after stdin ended, its timer never cleared
C14_Witness ==
  /\ ~proc.alive
  /\ proc.stdin = "ended"
  /\ proc.timer = "unref"
  /\ \E t \in MonTasks : task[t].health # NoReport

\* the key a header carries: what follows a leading "Bearer ", or the whole
\* value when the header names no scheme; no key when the header is absent
BearerKey(h) ==
  IF ~h.present THEN NoHeader
  ELSE IF Len(h.value) >= 1 /\ h.value[1] = "Bearer " THEN Header(Tail(h.value))
  ELSE h

\* C15 (as stated): a request to a REST route other than GET / whose bearer key
\* is absent or differs from the API key is answered 401 and no handler runs
C15_Original ==
  (<<http.method, http.path>> \in DOMAIN Routes /\ BearerKey(http.header) # Header(API_KEY))
    => (http.status = 401 /\ http.invoked = "none")

(***************************************************************************)
(* Renewal                                                                 *)
(***************************************************************************)
\* the token file holds a pair that a renewal saved (saveTokens after an
\* extraction from Chrome): the file's own pairs come from elsewhere
RenewalSaved == file.state = "ok" /\ file.token = Tok("xoxc-", "C")

\* C16 (as stated): once a renewal has extracted and saved a pair, a health
\* evaluation that returns afterwards (here at most MaxTicks hours later)
\* reports healthy, whichever source supplied the credentials before
C16_Original ==
  \A t \in MonTasks :
    (RenewalSaved /\ task[t].pc = "idle" /\ task[t].health # NoReport)
      => task[t].health.healthy

(***************************************************************************)
(* slackAPI and its proactive health check                                 *)
(***************************************************************************)
\* the health check that call t started is inside extractFromChrome
InHealthRenewal(t) == task[t].pc = "h_probe"

\* C17 (as stated): the request of a slackAPI call does not wait for the
\* health check the call started: while that health check is renewing
\* (extracting from Chrome), the call's request has already been issued
C17_Original ==
  \A t \in ApiTasks : InHealthRenewal(t) => task[t].nReq >= 1

\* a step writes the stored credentials (token file or keychain)
StoreWritten == file' # file \/ keychain' # keychain

\* C18 (as stated): within a slackAPI call the stored credentials are written
\* only on the auth-failure recovery path
C18_Original ==
  [][StoreWritten => \E t \in ApiTasks : task[t].pc = "probe_auth"]_vars

\* call t is where an extraction from Chrome was asked for: after an auth
\* failure, by the call's health check on a pair older than the warning age (or
\* of unknown age) once the cooldown has passed, or by loadTokens when no stored
\* source holds a pair
AsksExtraction(t) ==
  \/ /\ task[t].pc = "probe_auth"
     /\ task[t].lastResp.kind = "auth" /\ task[t].retryOnAuthFail
  \/ /\ task[t].pc = "h_probe"
     /\ task[t].retryCount = 0
     /\ \/ task[t].hcreds.updatedAt = -1
        \/ now - task[t].hcreds.updatedAt > TOKEN_WARNING_AGE
     /\ lastRefreshAttempt = now
  \/ /\ task[t].pc \in {"probe_load", "h_probe_load"}
     /\ LoadStored = NoCreds

\* C18 (amended): within a slackAPI call the stored credentials are written only
\* by saving a pair that an extraction from Chrome returned, on one of three
\* paths: auth-failure recovery, the proactive refresh of the call's health
\* check, and loadTokens finding no stored pair; every other step of a call
\* leaves them unchanged
C18_WritesOnlyAfterExtraction ==
  [][StoreWritten =>
       \E t \in ApiTasks :
         /\ AsksExtraction(t)
         /\ chrome = GoodPair("C")
         /\ file' = SaveToFile(chrome.token, chrome.cookie)]_vars

\* a call that met no auth failure has written the token file from its health
\* check: the file holds the extracted pair, the call is about to send its
\* first request
C18_Witness ==
  \E t \in ApiTasks :
    /\ task[t].pc = "send" /\ task[t].nReq = 0 /\ task[t].authProbes = 0
    /\ task[t].health.refreshed
    /\ task[t].creds.source = "file"
    /\ RenewalSaved

(***************************************************************************)
(* atomicWriteSync and a killed process                                    *)
(***************************************************************************)
\* C19 (as stated): when the process is killed or crashes at any point inside
\* atomicWriteSync, no file is left at the temporary path
C19_Original ==
  wpc = "crashed" => ~Exists(disk, TempPath(TargetPath))

(***************************************************************************)
(* The retry after an auth-failure renewal                                 *)
(***************************************************************************)
\* the request of call t in flight is the retry that follows a renewal
RetryInFlight(t) == task[t].renewed /\ task[t].pc = "fetching"

\* C20 (as stated): the retry that follows a successful auth-failure renewal is
\* sent with the pair just extracted from Chrome, whatever source supplied the
\* rejected pair
C20_Original ==
  \A t \in ApiTasks :
    RetryInFlight(t) => Pair(task[t].creds.token, task[t].creds.cookie) = chrome

(***************************************************************************)
(* Retries of one slackAPI call chain (Spec)                               *)
(***************************************************************************)
\* C21: one call chain asks for renewal on the auth-failure path at most once;
\* after a renewal retryOnAuthFail is false in every later invocation of the
\* chain, whatever backoff retries follow, and an auth failure met then ends the
\* call with the remote error
C21_RenewsAtMostOnce ==
  \A t \in ApiTasks :
    /\ task[t].authProbes <= 1
    /\ task[t].renewed => (task[t].authProbes = 1 /\ ~task[t].retryOnAuthFail)
    /\ (task[t].renewed /\ task[t].pc = "done" /\ task[t].lastResp.kind = "auth")
         => task[t].result = Err(task[t].lastResp.error)

\* C21 witness: a chain that renewed once and took a backoff retry ended on a
\* second auth failure, surfaced as the remote error
C21_Witness ==
  \E t \in ApiTasks :
    /\ task[t].pc = "done" /\ task[t].renewed /\ task[t].authProbes = 1
    /\ task[t].retryCount >= 1 /\ task[t].nReq >= 3
    /\ task[t].lastResp.kind = "auth"
    /\ task[t].result = Err("invalid_auth")

\* the remote requests a chain has issued when it stands at retryCount, with or
\* without a renewal retry behind it
RequestsIssued(r) == r.retryCount + 1 + (IF r.renewed THEN 1 ELSE 0)

\* C22: a call chain issues at most maxRetries + 2 remote requests: one per
\* value of retryCount from 0 to maxRetries and one more for the renewal retry;
\* after the last of them no retry of any kind is left, so whatever the remote
\* side answers ends the call
C22_BoundedRequests ==
  \A t \in ApiTasks :
    /\ task[t].nReq <= MaxRetries + 2
    /\ task[t].retryCount <= MaxRetries
    /\ task[t].pc \in {"fetching", "sleeping", "probe_auth", "done"} /\ task[t].nReq >= 1
         => task[t].nReq = RequestsIssued(task[t])
    /\ task[t].nReq = MaxRetries + 2 => (~CanRetry(task[t]) /\ ~task[t].retryOnAuthFail)

\* C22 witness: a chain that ended after maxRetries + 2 requests
C22_Witness ==
  \E t \in ApiTasks : task[t].pc = "done" /\ task[t].nReq = MaxRetries + 2

\* a step in which call t is invoked again: after a backoff wait, or after a
\* renewal
BackoffRetried(t) == task[t].pc = "sleeping" /\ task'[t].pc = "load"
RenewalRetried(t) == task[t].pc = "probe_auth" /\ task'[t].pc = "load"

\* C23 (as stated): retryCount strictly increases with every retry of any
\* kind, and no retry is made once retryCount equals maxRetries
C23_Original ==
  [][\A t \in ApiTasks :
       (BackoffRetried(t) \/ RenewalRetried(t))
         => (task'[t].retryCount > task[t].retryCount /\ task[t].retryCount < MaxRetries)]_vars

\* C23 (amended): retryCount increases by one with every retry that follows a
\* backoff wait (transport error or rate limit) and no such retry is made once
\* retryCount equals maxRetries; the one retry that follows a renewal keeps
\* retryCount as it is and turns retryOnAuthFail off; within a chain retryCount
\* never decreases
C23_CounterPerBackoffRetry ==
  [][\A t \in ApiTasks :
       /\ BackoffRetried(t)
            => (task'[t].retryCount = task[t].retryCount + 1
                /\ task[t].retryCount < MaxRetries)
       /\ RenewalRetried(t)
            => (task'[t].retryCount = task[t].retryCount
                /\ task[t].retryOnAuthFail /\ ~task'[t].retryOnAuthFail)
       /\ task[t].pc # "idle" => task'[t].retryCount >= task[t].retryCount]_vars

\* C23 witness: the renewal retry has been made at retryCount = maxRetries (the
\* maxRetries + 1 requests so far are those of retryCount 0..maxRetries)
C23_Witness ==
  \E t \in ApiTasks :
    /\ task[t].pc = "load" /\ task[t].renewed
    /\ task[t].retryCount = MaxRetries /\ task[t].nReq = MaxRetries + 1

(***************************************************************************)
(* Backoff waits (Spec)                                                    *)
(***************************************************************************)
\* Math.random() * 1000 is below 1000
JitterBound == 1000

\* C24 (as stated): every backoff wait, after a transport error or a rate
\* limit, lasts at most 30000 ms plus the jitter
C24_Original ==
  \A t \in ApiTasks :
    task[t].pc = "sleeping" => task[t].sleepMs <= 30000 + JitterBound

\* C24 (amended): a wait after a transport error lasts at most 10000 ms plus
\* the jitter; a wait after a rate limit lasts at most 30000 ms times the number
\* of the retry it precedes (retryCount + 1), hence at most 30000 * maxRetries
\* ms, plus the jitter
C24_BackoffBounded ==
  \A t \in ApiTasks :
    task[t].pc = "sleeping" =>
      /\ task[t].lastResp.kind \in {"network", "ratelimited"}
      /\ task[t].lastResp.kind = "network" => task[t].sleepMs < 10000 + JitterBound
      /\ task[t].lastResp.kind = "ratelimited" =>
           /\ task[t].sleepMs < 30000 * (task[t].retryCount + 1) + JitterBound
           /\ task[t].sleepMs < 30000 * MaxRetries + JitterBound

\* C24 witness: the wait before the third retry after a Retry-After of 60 s
\* lasts 90 s and more
C24_Witness ==
  \E t \in ApiTasks :
    /\ task[t].pc = "sleeping" /\ task[t].lastResp = Resp("ratelimited", "ratelimited", 60)
    /\ task[t].retryCount = MaxRetries - 1
    /\ task[t].sleepMs >= 90000

(***************************************************************************)
(* Transport errors (Spec)                                                 *)
(***************************************************************************)
\* the last thing call t got from its request was the transport error e
GotTransportError(t, e) == task[t].lastResp = Resp("network", e, -1)

\* C25 (as stated): a transport error that is not one of the listed codes ends
\* the call at its first occurrence, as that error, without a wait or a retry
C25_Original ==
  \A t \in ApiTasks, e \in NetworkErrors \ RETRYABLE_NETWORK_ERRORS :
    GotTransportError(t, e)
      => (task[t].pc = "done" /\ task[t].result = Err(e) /\ task[t].sleepMs = 0)

\* the transport errors whose message contains "fetch"
FetchMessages == {"fetch failed"}

\* C25 (amended): a transport error that is not one of the listed codes and
\* whose message does not contain "fetch" ends the call at its first
\* occurrence, as that error, without a wait or a retry; a transport error ends
\* a call only if it is such an error or retryCount has reached maxRetries
C25_UnclassifiedSurfaced ==
  \A t \in ApiTasks, e \in NetworkErrors :
    GotTransportError(t, e) =>
      /\ e \notin RETRYABLE_NETWORK_ERRORS \cup FetchMessages
           => (task[t].pc = "done" /\ task[t].result = Err(e) /\ task[t].sleepMs = 0)
      /\ task[t].pc = "done"
           => /\ task[t].result = Err(e)
              /\ e \notin RETRYABLE_NETWORK_ERRORS \cup FetchMessages
                 \/ task[t].retryCount = MaxRetries

\* C25 witness: the first request of a call met an error that is neither listed
\* nor a fetch failure, and the call ended with it
C25_Witness ==
  \E t \in ApiTasks :
    /\ GotTransportError(t, "ERR_INVALID_URL")
    /\ task[t].pc = "done" /\ task[t].nReq = 1 /\ task[t].retryCount = 0
    /\ task[t].result = Err("ERR_INVALID_URL")

\* C26: a call whose every request so far met a listed transport error stands
\* at its k-th such error: it has made k requests (and perhaps issued the next);
\* before retry k it waits
\* min(1000 * 2^(k-1), 10000) ms plus a jitter below 1000 ms; it does not end
\* before the error of request maxRetries + 1, and ends there with that error
C26_TransientExhausted ==
  \A t \in ApiTasks :
    LET r == task[t]
        k == r.netOnly
    IN
    k >= 1 =>
      /\ k <= MaxRetries + 1
      /\ r.nReq = IF r.pc = "fetching" THEN k + 1 ELSE k
      /\ r.pc \in {"sleeping", "done"} => r.lastResp.kind = "network"
      /\ r.pc = "sleeping"
           => /\ k <= MaxRetries /\ r.retryCount = k - 1
              /\ r.sleepMs >= Min(1000 * Pow2(k - 1), 10000)
              /\ r.sleepMs < Min(1000 * Pow2(k - 1), 10000) + JitterBound
      /\ r.pc = "done"
           => /\ k = MaxRetries + 1 /\ r.retryCount = MaxRetries
              /\ r.result = Err(r.lastResp.error)

\* C26 witness: maxRetries + 1 requests, each met by a listed transport error,
\* and the call ended with the last of them
C26_Witness ==
  \E t \in ApiTasks :
    /\ task[t].pc = "done" /\ task[t].netOnly = MaxRetries + 1
    /\ task[t].nReq = MaxRetries + 1
    /\ task[t].result = Err("ECONNRESET")

(***************************************************************************)
(* Failures that end a slackAPI call (Spec)                                *)
(***************************************************************************)
\* call t leaves the extraction it asked for after an auth failure
AuthProbeReturns(t) == task[t].pc = "probe_auth" /\ task'[t].pc # "probe_auth"

\* C27: when the extraction asked for after an auth failure yields no pair (not
\* macOS, no Slack tab, values of another shape), the call ends there with the
\* tokens-expired error: no request is issued after the rejected one and neither
\* the token file nor the keychain is written; and a call ends with that error
\* only after an auth failure met with retryOnAuthFail true
C27_NoPairSurfaced ==
  [][\A t \in ApiTasks :
       /\ (AuthProbeReturns(t) /\ ~ChromeFull(Snap))
            => /\ task'[t].pc = "done"
               /\ task'[t].result = Err("tokens_expired")
               /\ task'[t].nReq = task[t].nReq
               /\ file' = file /\ keychain' = keychain
       /\ (task'[t].result = Err("tokens_expired") /\ task[t].result = NoResult)
            => /\ task'[t].lastResp.kind = "auth" /\ task[t].retryOnAuthFail
               /\ task'[t].pc = "done"]_vars

\* C27 witness: Chrome held a token with a cookie of another shape; the call
\* ended with the tokens-expired error after its one request
C27_Witness ==
  \E t \in ApiTasks :
    /\ task[t].pc = "done" /\ task[t].result = Err("tokens_expired")
    /\ task[t].nReq = 1 /\ task[t].authProbes = 1
    /\ isMac /\ chrome = Pair(Tok("xoxc-", "C"), Tok("xoxb-", "C"))

\* C28: a call for which no source yields a pair (environment, file and
\* keychain hold none and Chrome has no pair to extract) ends with the
\* no-credentials error, having issued no request and made no retry; that error
\* arises in no other way
C28_NoCredentialsImmediate ==
  \A t \in ApiTasks :
    /\ (task[t].pc = "done" /\ LoadStored = NoCreds /\ ~ChromeFull(Snap))
         => task[t].result = Err("no_credentials")
    /\ (task[t].pc \notin {"idle", "load", "probe_load", "loaded"} /\ task[t].creds = NoCreds)
         => task[t].result = Err("no_credentials")
    /\ task[t].result = Err("no_credentials")
         => /\ task[t].pc = "done" /\ task[t].creds = NoCreds
            /\ task[t].nReq = 0 /\ task[t].retryCount = 0 /\ task[t].sleepMs = 0
            /\ task[t].authProbes = 0 /\ task[t].health = NoReport

\* C28 witness: on macOS with an empty environment, no token file, an empty
\* keychain and no Slack tab, the call ended with the no-credentials error
C28_Witness ==
  \E t \in ApiTasks :
    /\ task[t].pc = "done" /\ task[t].result = Err("no_credentials")
    /\ isMac /\ env = NoPair /\ file = NoTokenFile /\ keychain = NoPair /\ chrome = NoPair
    /\ task[t].nReq = 0

\* call t receives a not-ok response whose error e is neither ratelimited nor
\* an auth failure
GetsOtherError(t, e) ==
  /\ task[t].pc = "fetching"
  /\ task'[t].lastResp = Resp("error", e, -1)

\* C29: a not-ok response whose error is neither ratelimited nor an auth
\* failure ends the call at once with the remote error string as it came: no
\* request follows, no extraction is asked for, nothing is written to the store
\* and no wait is made
C29_OtherErrorVerbatim ==
  [][\A t \in ApiTasks, e \in {"channel_not_found"} :
       GetsOtherError(t, e)
         => /\ task'[t].pc = "done"
            /\ task'[t].result = Err(e)
            /\ task'[t].nReq = task[t].nReq
            /\ task'[t].retryCount = task[t].retryCount
            /\ task'[t].authProbes = task[t].authProbes
            /\ task'[t].sleepMs = 0
            /\ refreshInProgress' = refreshInProgress
            /\ file' = file /\ keychain' = keychain]_vars

\* C29 witness: the call ended with channel_not_found after one request
C29_Witness ==
  \E t \in ApiTasks :
    /\ task[t].pc = "done" /\ task[t].lastResp = Resp("error", "channel_not_found", -1)
    /\ task[t].result = Err("channel_not_found")
    /\ task[t].nReq = 1 /\ task[t].authProbes = 0

(***************************************************************************)
(* loadTokens(true) (SpecLoad)                                             *)
(***************************************************************************)
\* C30: loadTokens(true) returns nothing from the environment, the token file
\* or the keychain, whatever they hold: it returns the pair extracted from
\* Chrome, saved to the token file before the return, or null when Chrome
\* yields no pair
C30_ForceSkipsStored ==
  (lastLoad.called /\ lastLoad.force) =>
    LET sn == lastLoad.snap
        r == lastLoad.result
    IN /\ r.source \in {"none", "chrome-auto"}
       /\ r = NoCreds <=> ~ChromeFull(sn)
       /\ r.source = "chrome-auto"
            => /\ Pair(r.token, r.cookie) = sn.chrome
               /\ file.state = "ok" /\ Pair(file.token, file.cookie) = sn.chrome
               /\ file.updatedAt = now

\* C30 witness: environment, file and keychain all held a complete pair and
\* loadTokens(true) returned the pair of Chrome
C30_Witness ==
  /\ lastLoad.called /\ lastLoad.force
  /\ EnvFull(lastLoad.snap) /\ FileFull(lastLoad.snap) /\ KeychainFull(lastLoad.snap)
  /\ lastLoad.result.source = "chrome-auto"
  /\ Pair(lastLoad.result.token, lastLoad.result.cookie) = GoodPair("C")

(***************************************************************************)
(* The renewal lock (SpecRace)                                             *)
(***************************************************************************)
\* task t leaves extractFromChrome in this step
LeavesProbe(t) == task[t].pc \in InFlightPcs /\ task'[t].pc \notin InFlightPcs

\* task t asks for a renewal in this step: an auth failure answered with
\* retryOnAuthFail true, or a health check on old credentials after the cooldown
AsksRenewal(t) ==
  \/ /\ task[t].pc = "fetching" /\ task'[t].lastResp.kind = "auth"
     /\ task[t].retryOnAuthFail
  \/ /\ task[t].pc = "h_loaded" /\ task'[t].pc # "h_loaded"
     /\ task[t].hcreds # NoCreds
     /\ TokenAge(task[t].hcreds) > TOKEN_WARNING_AGE
     /\ now - lastRefreshAttempt > REFRESH_COOLDOWN

\* C31: every exit of extractFromChrome, with a pair or with null, releases the
\* lock; while no extraction is executing the lock is free; and a task that asks
\* for a renewal enters the extraction: it is never refused by a lock left held
C31_LockReleased ==
  /\ [](InFlight = {} => ~refreshInProgress)
  /\ [][\A t \in Tasks :
         /\ LeavesProbe(t) => ~refreshInProgress'
         /\ AsksRenewal(t) => (task'[t].pc \in InFlightPcs /\ refreshInProgress')]_vars

\* C31 witness: one call ended because its extraction returned null, and
\* another task is inside a later extraction
C31_Witness ==
  \E t1 \in ApiTasks, t2 \in Tasks :
    /\ t1 # t2
    /\ task[t1].pc = "done" /\ task[t1].result = Err("tokens_expired")
    /\ task[t1].authProbes = 1
    /\ task[t2].pc \in {"h_probe", "probe_auth"} /\ refreshInProgress

(***************************************************************************)
(* The refresh cooldown (SpecHealth)                                       *)
(***************************************************************************)
\* the health check of task t decides in this step whether to attempt a renewal
HealthDecides(t) == task[t].pc = "h_loaded" /\ task'[t].pc # "h_loaded"

\* C32: a health check attempts a renewal only when more than the cooldown has
\* passed since the last attempt, and the attempt, whatever comes of it, is the
\* new start of the cooldown; a check within the cooldown attempts nothing and
\* writes nothing, however old the credentials
C32_CooldownBetweenAttempts ==
  /\ [](\A t \in MonTasks : task[t].pc = "h_probe" => lastRefreshAttempt = now)
  /\ [][\A t \in MonTasks :
         /\ (HealthDecides(t) /\ task'[t].pc = "h_probe")
              => (now - lastRefreshAttempt > REFRESH_COOLDOWN /\ lastRefreshAttempt' = now)
         /\ (HealthDecides(t) /\ now - lastRefreshAttempt <= REFRESH_COOLDOWN)
              => /\ task'[t].pc = "idle"
                 /\ ~task'[t].health.refreshed
                 /\ lastRefreshAttempt' = lastRefreshAttempt
                 /\ file' = file /\ keychain' = keychain
         /\ lastRefreshAttempt' # lastRefreshAttempt => HealthDecides(t)]_vars

\* C32 witness: an attempt made at the start found nothing in Chrome; an hour
\* later a check has loaded the same credentials, older than the critical
\* threshold, within the cooldown
C32_Witness ==
  \E t \in MonTasks :
    /\ task[t].pc = "h_loaded" /\ AgedCritical(t)
    /\ lastRefreshAttempt = StartNow /\ now = StartNow + 1
    /\ isMac /\ chrome = NoPair

(***************************************************************************)
(* handleTokenStatus (SpecStatus)                                          *)
(***************************************************************************)
\* status: health.healthy ? "healthy" : health.reason === 'no_tokens' ?
\* "missing" : "warning"
TokenStatus(rep) ==
  IF rep.healthy THEN "healthy"
  ELSE IF rep.reason = "no_tokens" THEN "missing"
  ELSE "warning"

\* handleTokenStatus is entered: checkTokenHealth({ error: () => {} })
StatusCall(t) ==
  /\ t \in MonTasks
  /\ running = "none"
  /\ task[t].pc = "idle"
  /\ tool.phase # "running"
  /\ tool' = [NoToolCall EXCEPT !.name = "slack_token_status", !.phase = "running"]
  /\ task' = [task EXCEPT ![t] = [IdleTask EXCEPT !.pc = "h_load"]]
  /\ running' = t
  /\ UNCHANGED <<env, file, keychain, isMac, chrome, valid, refreshInProgress,
                 lastRefreshAttempt, now, loadSnap, lastLoad, prevLoad>>
  /\ UNCHANGED <<cacheVars, writeVars, proc, http, sideVars>>

\* handleTokenStatus returns its content with the status of the health report
StatusReturn(t) ==
  /\ t \in MonTasks
  /\ running = "none"
  /\ tool.phase = "running"
  /\ task[t].pc = "idle"
  /\ task[t].health # NoReport
  /\ tool' = ToolResult(tool.name, FALSE, TokenStatus(task[t].health))
  /\ UNCHANGED storeVars
  /\ UNCHANGED <<cacheVars, writeVars, proc, http, sideVars>>

\* the token status tool called again and again over the hours
NextStatus ==
  \/ \E t \in MonTasks : StatusCall(t)
  \/ \E t \in MonTasks : HealthLoad(t)
  \/ \E t \in MonTasks : HealthLoadProbe(t)
  \/ \E t \in MonTasks : HealthCheck(t)
  \/ \E t \in MonTasks : HealthProbe(t)
  \/ \E t \in MonTasks : StatusReturn(t)
  \/ Tick

SpecStatus == InitHealth /\ [][NextStatus]_vars

\* C33: the status returned by the token status tool is "missing" when there
\* are no credentials, "critical" when the report's critical flag is set (age
\* above the critical threshold), "warning" when only its warning flag is set
\* (age above the warning threshold), and "healthy" otherwise
C33_Original ==
  \A t \in MonTasks :
    (tool.name = "slack_token_status" /\ tool.phase = "returned")
      => LET rep == task[t].health IN
         tool.text = IF rep.reason = "no_tokens" THEN "missing"
                     ELSE IF rep.critical THEN "critical"
                     ELSE IF rep.warning THEN "warning"
                     ELSE "healthy"

(***************************************************************************)
(* Stored credentials are not lost (SpecRace)                              *)
(***************************************************************************)
\* a health evaluation that found credentials: any report but no_tokens
FoundReport(rep) == rep.reason \notin {"none", "no_tokens"}

\* C34: the credentials a health evaluation found are stored, no step of a
\* call, a renewal or a health check leaves the store without a pair once it
\* held one, and an evaluation reports missing only while the store holds none:
\* so no evaluation after one that found credentials reports missing
C34_NeverMissingAgain ==
  /\ [](\A t \in Tasks : FoundReport(task[t].health) => LoadStored # NoCreds)
  /\ [][/\ LoadStored # NoCreds => LoadStored' # NoCreds
        /\ \A t \in Tasks :
             (task'[t].health # task[t].health /\ task'[t].health.reason = "no_tokens")
               => LoadStored = NoCreds
        /\ \A t \in MonTasks :
             FoundReport(task[t].health) => task'[t].health.reason # "no_tokens"]_vars

\* C34 witness: the background check has found credentials, a call has then
\* failed because its renewal found nothing usable in Chrome, and a later
\* evaluation of the background check has loaded credentials again
C34_Witness ==
  \E t \in MonTasks, a \in ApiTasks :
    /\ FoundReport(task[t].health)
    /\ task[a].pc = "done" /\ task[a].result = Err("tokens_expired")
    /\ task[a].authProbes = 1
    /\ task[t].pc = "h_loaded" /\ task[t].hcreds # NoCreds

(***************************************************************************)
(* A saved pair is the next pair loaded (SpecRace)                         *)
(***************************************************************************)
\* task t calls loadTokens(false) in this step and gets a stored pair back
LoadsStored(t) ==
  \/ task[t].pc = "load" /\ task'[t].pc = "loaded"
  \/ task[t].pc = "h_load" /\ task'[t].pc = "h_loaded"

\* what loadTokens returned to task t in a step LoadsStored(t)
Loaded(t) == IF task[t].pc = "load" THEN task'[t].creds ELSE task'[t].hcreds

EnteredTokens == {Tok("xoxc-", "M"), Tok("xoxb-", "M")}
EnteredCookies == {Tok("xoxd-", "M"), Tok("xoxc-", "M"), NoTok}

\* !token.startsWith("xoxc-") || !cookie.startsWith("xoxd-") rejects the entry
ValidEntryTokenOnly(tok, cook) == StartsWith(tok, "xoxc-")
ValidEntry(tok, cook) == StartsWith(tok, "xoxc-") /\ StartsWith(cook, "xoxd-")

CliCommand(cmd, phase, tok, cook, saved) ==
  [NoCli EXCEPT !.cmd = cmd, !.phase = phase, !.token = tok, !.cookie = cook,
                !.saved = saved]
\* slackAPI("auth.test", {}) is called by the command
CliCalls == [task EXCEPT !["a1"] = [IdleTask EXCEPT !.pc = "load"]]

\* token-cli refresh: the two prompts, the prefix check, saveTokens, auth.test
ManualRefresh(tok, cook) ==
  /\ cli = NoCli
  /\ running = "none"
  /\ IF ValidEntry(tok, cook)
     THEN /\ \E ot, oc \in KcOutcomes : SaveTokens(tok, cook, ot, oc)
          /\ cli' = CliCommand("refresh", "verifying", tok, cook, TRUE)
          /\ task' = CliCalls
          /\ running' = "a1"
     ELSE /\ cli' = CliCommand("refresh", "exited", tok, cook, FALSE)
          /\ UNCHANGED <<file, keychain, task, running>>
  /\ UNCHANGED <<env, isMac, chrome, valid, refreshInProgress, lastRefreshAttempt, now,
                 loadSnap, lastLoad, prevLoad>>
  /\ UNCHANGED <<cacheVars, writeVars, tool, proc, http, resolve, dm>>

\* token-cli status: loadTokens(), which may extract from Chrome and save, and
\* with credentials slackAPI("auth.test"), whose own loadTokens finds them stored
ShowStatus ==
  /\ cli = NoCli
  /\ running = "none"
  /\ cli' = CliCommand("status", "verifying", NoTok, NoTok, FALSE)
  /\ task' = CliCalls
  /\ running' = "a1"
  /\ UNCHANGED <<env, file, keychain, isMac, chrome, valid, refreshInProgress,
                 lastRefreshAttempt, now, loadSnap, lastLoad, prevLoad>>
  /\ UNCHANGED <<cacheVars, writeVars, tool, proc, http, resolve, dm>>

\* token-cli auto: extractFromChrome, saveTokens, auth.test
AutoExtract ==
  /\ cli = NoCli
  /\ running = "none"
  /\ LET r == ExtractFromChromeInternal IN
     IF r # NoPair
     THEN /\ \E ot, oc \in KcOutcomes : SaveTokens(r.token, r.cookie, ot, oc)
          /\ cli' = CliCommand("auto", "verifying", r.token, r.cookie, TRUE)
          /\ task' = CliCalls
          /\ running' = "a1"
     ELSE /\ cli' = CliCommand("auto", "exited", NoTok, NoTok, FALSE)
          /\ UNCHANGED <<file, keychain, task, running>>
  /\ UNCHANGED <<env, isMac, chrome, valid, refreshInProgress, lastRefreshAttempt, now,
                 loadSnap, lastLoad, prevLoad>>
  /\ UNCHANGED <<cacheVars, writeVars, tool, proc, http, resolve, dm>>

\* token-cli clear: unlink the token file; delete the two keychain entries (the
\* second delete is not reached when the first one throws)
ClearTokens ==
  /\ cli = NoCli
  /\ running = "none"
  /\ file' = NoTokenFile
  /\ keychain' = IF isMac /\ Truthy(keychain.token) THEN NoPair ELSE keychain
  /\ cli' = CliCommand("clear", "exited", NoTok, NoTok, FALSE)
  /\ UNCHANGED <<env, isMac, chrome, valid, refreshInProgress, lastRefreshAttempt, now,
                 running, task, loadSnap, lastLoad, prevLoad>>
  /\ UNCHANGED <<cacheVars, writeVars, tool, proc, http, resolve, dm>>

\* runManualSetup up to validateTokens: the prefix checks, then the entered pair
\* is put into process.env and slackAPI("auth.test") is called
RunManualSetup(tok, cook) ==
  /\ cli = NoCli
  /\ running = "none"
  /\ IF ValidEntry(tok, cook)
     THEN /\ env' = Pair(tok, cook)
          /\ cli' = [CliCommand("setup", "validating", tok, cook, FALSE) EXCEPT !.oldEnv = env]
          /\ task' = CliCalls
          /\ running' = "a1"
     ELSE /\ cli' = CliCommand("setup", "exited", tok, cook, FALSE)
          /\ UNCHANGED <<env, task, running>>
  /\ UNCHANGED <<file, keychain, isMac, chrome, valid, refreshInProgress, lastRefreshAttempt,
                 now, loadSnap, lastLoad, prevLoad>>
  /\ UNCHANGED <<cacheVars, writeVars, tool, proc, http, resolve, dm>>

\* validateTokens returns: after a successful auth.test process.env is restored
\* and runManualSetup saves the entered pair; after a failure nothing is saved
SetupValidated ==
  /\ cli.phase = "validating"
  /\ running = "none"
  /\ task["a1"].pc = "done"
  /\ IF task["a1"].result = Ok
     THEN /\ env' = cli.oldEnv
          /\ \E ot, oc \in KcOutcomes : SaveTokens(cli.token, cli.cookie, ot, oc)
          /\ cli' = [cli EXCEPT !.phase = "exited", !.saved = TRUE]
     ELSE /\ cli' = [cli EXCEPT !.phase = "exited"]
          /\ UNCHANGED <<env, file, keychain>>
  /\ UNCHANGED <<isMac, chrome, valid, refreshInProgress, lastRefreshAttempt, now,
                 running, task, loadSnap, lastLoad, prevLoad>>
  /\ UNCHANGED <<cacheVars, writeVars, tool, proc, http, resolve, dm>>

\* the auth.test after a save has settled: "Verified as" or the warning
CliVerified ==
  /\ cli.phase = "verifying"
  /\ running = "none"
  /\ task["a1"].pc = "done"
  /\ cli' = [cli EXCEPT !.phase = "exited"]
  /\ UNCHANGED storeVars
  /\ UNCHANGED <<cacheVars, writeVars, tool, proc, http, resolve, dm>>

\* the command's process ends; the next command is a new process
CliExit ==
  /\ cli.phase = "exited"
  /\ cli' = NoCli
  /\ env' = NoPair
  /\ refreshInProgress' = FALSE
  /\ lastRefreshAttempt' = 0
  /\ task' = [t \in Tasks |-> IdleTask]
  /\ UNCHANGED <<file, keychain, isMac, chrome, valid, now, running, loadSnap, lastLoad,
                 prevLoad>>
  /\ UNCHANGED <<cacheVars, writeVars, tool, proc, http, resolve, dm>>

InitCli ==
  /\ CacheParked /\ WriteParked /\ ServerParked
  /\ env = NoPair
  /\ file \in {NoTokenFile, TokenFile(Tok("xoxc-", "F"), Tok("xoxd-", "F"), StartNow - 1)}
  /\ isMac \in BOOLEAN
  /\ keychain \in IF isMac THEN {NoPair, GoodPair("K")} ELSE {NoPair}
  /\ chrome \in IF isMac THEN ChromeStates ELSE {NoPair}
  /\ valid \in {{"F", "K", "C", "M"}, {"C"}}
  /\ refreshInProgress = FALSE
  /\ lastRefreshAttempt = 0
  /\ now = StartNow
  /\ running = "none"
  /\ task = [t \in Tasks |-> IdleTask]
  /\ loadSnap = Snap
  /\ lastLoad = NoLoad
  /\ prevLoad = NoLoad

\* the commands of the token CLI and the manual setup of the wizard, one
\* process after the other, each with the slackAPI call it makes
NextCli ==
  \/ \E tok \in EnteredTokens, cook \in EnteredCookies : ManualRefresh(tok, cook)
  \/ ShowStatus
  \/ AutoExtract
  \/ ClearTokens
  \/ \E tok \in EnteredTokens, cook \in EnteredCookies : RunManualSetup(tok, cook)
  \/ SetupValidated
  \/ CliVerified
  \/ CliExit
  \/ \E t \in {"a1"} : Load(t)
  \/ \E t \in {"a1"} : LoadProbe(t)
  \/ \E t \in {"a1"} : ApiLoaded(t)
  \/ \E t \in {"a1"} : HealthLoad(t)
  \/ \E t \in {"a1"} : HealthCheck(t)
  \/ \E t \in {"a1"} : HealthProbe(t)
  \/ \E t \in {"a1"} : ApiSend(t)
  \/ \E t \in {"a1"}, k \in {"ok", "auth", "error"},
        e \in {"", "invalid_auth", "channel_not_found"} :
        ApiResponse(t, Resp(k, e, -1), 0)
  \/ \E t \in {"a1"} : ApiAuthProbe(t)

SpecCli == InitCli /\ [][NextCli]_vars

\* the token file as saveToFile leaves it for the pair (tok, cook)
FileOf(tok, cook) == [state |-> "ok", token |-> tok, cookie |-> cook, updatedAt |-> now]

\* C36: a command that reaches saveTokens goes on as after a success and leaves
\* the token file holding the pair it was given, whatever the two keychain
\* commands did: each keychain entry is then the new value, the old one, or gone
\* (deleted and not added again), and off macOS the keychain is not touched
C36_KeychainFailureHarmless ==
  [][/\ (cli.phase = "none" /\ cli'.cmd = "refresh"
           /\ cli'.token.prefix = "xoxc-" /\ cli'.cookie.prefix = "xoxd-")
          => /\ cli'.saved /\ cli'.phase = "verifying"
             /\ file' = FileOf(cli'.token, cli'.cookie)
     /\ (cli.phase = "none" /\ cli'.cmd = "auto" /\ isMac
           /\ chrome.token.prefix = "xoxc-" /\ chrome.cookie.prefix = "xoxd-")
          => /\ cli'.saved /\ cli'.phase = "verifying"
             /\ file' = FileOf(chrome.token, chrome.cookie)
     /\ (cli.phase = "validating" /\ cli'.phase = "exited" /\ task["a1"].result = Ok)
          => /\ cli'.saved
             /\ file' = FileOf(cli.token, cli.cookie)
     /\ (keychain' # keychain /\ cli'.cmd # "clear")
          => /\ isMac /\ file'.state = "ok"
             /\ keychain'.token \in {keychain.token, NoTok, file'.token}
             /\ keychain'.cookie \in {keychain.cookie, NoTok, file'.cookie}]_vars

\* C36 witness: a manual entry was saved on macOS while the keychain lost its
\* token entry (deleted, not added) and kept its old cookie entry
C36_Witness ==
  /\ isMac
  /\ cli.cmd = "refresh" /\ cli.saved
  /\ file.token = cli.token /\ file.cookie = cli.cookie
  /\ keychain.token = NoTok /\ keychain.cookie = Tok("xoxd-", "K")

\* C37: the token file and the keychain never hold a token without the prefix
\* xoxc- or a cookie without the prefix xoxd-; a command saves only an entry with
\* both prefixes, and an extraction from a Chrome tab whose values lack them
\* ends as one that found nothing: nothing is written
C37_OnlyPrefixedPersisted ==
  /\ [](file.state = "ok" => (file.token.prefix = "xoxc-" /\ file.cookie.prefix = "xoxd-"))
  /\ [](keychain.token.prefix \in {"", "xoxc-"} /\ keychain.cookie.prefix \in {"", "xoxd-"})
  /\ [][/\ (cli'.saved /\ ~cli.saved)
             => (cli'.token.prefix = "xoxc-" /\ cli'.cookie.prefix = "xoxd-")
        /\ \A t \in Tasks :
             (task[t].pc \in InFlightPcs /\ task'[t].pc \notin InFlightPcs
                /\ ~(chrome.token.prefix = "xoxc-" /\ chrome.cookie.prefix = "xoxd-"))
               => (file' = file /\ keychain' = keychain /\ ~task'[t].renewed
                   /\ ~task'[t].health.refreshed)
        /\ (cli.phase = "none" /\ cli'.cmd = "auto"
              /\ ~(chrome.token.prefix = "xoxc-" /\ chrome.cookie.prefix = "xoxd-"))
             => (~cli'.saved /\ file' = file /\ keychain' = keychain)]_vars

\* C37 witness: an entry whose cookie starts with xoxc- has been rejected, on a
\* machine whose Chrome tab holds a cookie that does not start with xoxd-
C37_Witness ==
  /\ cli.cmd = "refresh" /\ cli.phase = "exited" /\ ~cli.saved
  /\ cli.token = Tok("xoxc-", "M") /\ cli.cookie = Tok("xoxc-", "M")
  /\ isMac /\ chrome = Pair(Tok("xoxc-", "C"), Tok("xoxb-", "C"))

(***************************************************************************)
(* resolveUser over the user cache (SpecResolve)                           *)
(***************************************************************************)
MaxCalls == 3     \* resolveUser calls in one run

\* what users.info may answer: a user with real_name, with name only, with
\* neither, or the call throws (remote error, retries exhausted, no credentials)
LookupOutcomes == {"real_name", "name", "bare", "error"}
\* result.user?.real_name || result.user?.name || userId
UserName(u, outcome) ==
  CASE outcome = "real_name" -> u \o "-real"
    [] outcome = "name" -> u \o "-nick"
    [] OTHER -> u

\* catch (e): userCache.set(userId, userId)
OnLookupFailure(m, u, t) == LRUSet(m, u, u, t)

\* resolveUser(userId) up to its await: the falsy id, the cache hit, or the
\* call of slackAPI("users.info")
ResolveStart(c, u) ==
  /\ resolve.calls[c].pc # "waiting"
  /\ resolve.started < MaxCalls
  /\ IF u = ""
     THEN /\ resolve' = [resolve EXCEPT !.calls[c] = [pc |-> "returned", id |-> u,
                                                     result |-> "unknown", looked |-> FALSE],
                                        !.started = @ + 1]
          /\ UNCHANGED cache
     ELSE LET r == LRUGet(cache, u, cacheNow) IN
          /\ cache' = r.cache
          /\ resolve' =
               IF r.value # NULL
               THEN [resolve EXCEPT !.calls[c] = [pc |-> "returned", id |-> u,
                                                  result |-> r.value, looked |-> FALSE],
                                    !.started = @ + 1]
               ELSE [resolve EXCEPT !.calls[c] = [pc |-> "waiting", id |-> u,
                                                  result |-> "", looked |-> TRUE],
                                    !.requests[u] = @ + 1,
                                    !.started = @ + 1]
  /\ UNCHANGED <<cacheNow, lastOp, useOrder, setAt>>
  /\ UNCHANGED <<writeVars, storeVars, tool, proc, http, cli, dm>>

\* the slackAPI promise of call c settles: the name, or the id itself after a
\* failure, is put into the cache and returned
ResolveSettle(c, outcome) ==
  /\ resolve.calls[c].pc = "waiting"
  /\ LET u == resolve.calls[c].id IN
     IF outcome = "error"
     THEN /\ cache' = OnLookupFailure(cache, u, cacheNow)
          /\ resolve' = [resolve EXCEPT !.calls[c].pc = "returned", !.calls[c].result = u,
                                        !.failedAt[u] = cacheNow]
     ELSE /\ cache' = LRUSet(cache, u, UserName(u, outcome), cacheNow)
          /\ resolve' = [resolve EXCEPT !.calls[c].pc = "returned",
                                        !.calls[c].result = UserName(u, outcome)]
  /\ UNCHANGED <<cacheNow, lastOp, useOrder, setAt>>
  /\ UNCHANGED <<writeVars, storeVars, tool, proc, http, cli, dm>>

\* time passes
ResolveTick ==
  /\ cacheNow < MaxTime
  /\ cacheNow' = cacheNow + 1
  /\ UNCHANGED <<cache, lastOp, useOrder, setAt>>
  /\ UNCHANGED <<writeVars, storeVars, serverVars>>

InitResolve == CacheInit /\ WriteParked /\ StoreParked /\ ServerParked

NextResolve ==
  \/ \E c \in Callers, u \in UserIds \cup {""} : ResolveStart(c, u)
  \/ \E c \in Callers, o \in LookupOutcomes : ResolveSettle(c, o)
  \/ ResolveTick

SpecResolve == InitResolve /\ [][NextResolve]_vars

\* call c enters resolveUser(u) in this step
Enters(c, u) ==
  /\ resolve'.started = resolve.started + 1
  /\ resolve'.calls[c] # resolve.calls[c]
  /\ resolve'.calls[c].id = u

\* C38: a call of resolveUser(u) made after a lookup of u has failed, within
\* the TTL of that failure and while the cache still holds an entry for u,
\* returns u and issues no request
C38_Original ==
  [][\A c \in Callers, u \in UserIds :
       (/\ Enters(c, u)
        /\ resolve.failedAt[u] >= 0
        /\ cacheNow <= resolve.failedAt[u] + TtlMs
        /\ MapHas(cache, u))
         => /\ resolve'.calls[c].pc = "returned"
            /\ resolve'.calls[c].result = u
            /\ resolve'.requests = resolve.requests]_vars

\* C39: no two resolveUser calls wait for a users.info answer about the same
\* user id at the same time
C39_Original ==
  \A c1, c2 \in Callers :
    (c1 # c2 /\ resolve.calls[c1].pc = "waiting" /\ resolve.calls[c2].pc = "waiting")
      => resolve.calls[c1].id # resolve.calls[c2].id

(***************************************************************************)
(* DM cache (SpecDm)                                                       *)
(***************************************************************************)
DM_CACHE_TTL == 24   \* 24 * 60 * 60 * 1000 ms, in hours
DmStart == 30        \* Date.now() at the start, in hours
MaxDmTicks == 3      \* hours that pass in one run

DmIds == {"D1", "D2"}
\* what the cache file may hold: the object saveDMCache wrote, text that does
\* not parse, the JSON value null, or an object without a timestamp
DmFile(dms, upd) == [kind |-> "ok", dms |-> dms, updated |-> upd]
DmFiles ==
  {DmMissing}
  \cup {[kind |-> k, dms |-> {}, updated |-> 0] : k \in {"unparsable", "null"}}
  \cup {[kind |-> "bare", dms |-> {"D1"}, updated |-> 0]}
  \cup {DmFile(dms, DmStart - a) : dms \in (SUBSET DmIds) \ {{}}, a \in {22, 24, 26}}

\* loadDMCache() at time t
LoadDMCacheInclusive(f, t) ==
  IF f.kind \in {"missing", "unparsable", "null"} THEN EmptyDMCache
  ELSE IF t - f.updated >= DM_CACHE_TTL THEN EmptyDMCache
  ELSE [dms |-> f.dms, updated |-> f.updated]
LoadDMCache(f, t) ==
  IF f.kind = "missing" THEN EmptyDMCache
  \* JSON.parse throws; data.updated throws on null: catch
  ELSE IF f.kind \in {"unparsable", "null"} THEN EmptyDMCache
  \* Date.now() - (data.updated || 0) > DM_CACHE_TTL
  ELSE IF t - f.updated > DM_CACHE_TTL THEN EmptyDMCache
  ELSE [dms |-> f.dms, updated |-> f.updated]

\* a handler that only reads the cache (handleTokenStatus, handleListConversations
\* without discovery)
DmLoad ==
  /\ dm' = [dm EXCEPT !.loaded = LoadDMCache(dm.file, dm.now), !.loadedAt = dm.now]
  /\ UNCHANGED <<cacheVars, writeVars, storeVars, tool, proc, http, cli, resolve>>

\* handleListConversations with discover_dms: the cache is loaded, the DMs found
\* are added to its entries and, if any is new, saveDMCache writes them all with
\* updated = now; a failed write is ignored
DmDiscover(found, written) ==
  /\ LET loaded == LoadDMCache(dm.file, dm.now)
         newDMs == loaded.dms \cup found
     IN dm' = [dm EXCEPT !.loaded = loaded, !.loadedAt = dm.now,
                         !.file = IF found \ loaded.dms # {} /\ written
                                  THEN DmFile(newDMs, dm.now) ELSE @]
  /\ UNCHANGED <<cacheVars, writeVars, storeVars, tool, proc, http, cli, resolve>>

\* an hour passes
DmTick ==
  /\ dm.now < DmStart + MaxDmTicks
  /\ dm' = [dm EXCEPT !.now = @ + 1]
  /\ UNCHANGED <<cacheVars, writeVars, storeVars, tool, proc, http, cli, resolve>>

InitDm ==
  /\ CacheParked /\ WriteParked /\ StoreParked
  /\ tool = NoToolCall /\ proc = NoProc /\ http = NoHttp
  /\ cli = NoCli /\ resolve = NoResolve
  /\ \E f \in DmFiles : dm = [NoDm EXCEPT !.file = f, !.now = DmStart]

NextDm ==
  \/ DmLoad
  \/ \E found \in SUBSET DmIds, written \in BOOLEAN : DmDiscover(found, written)
  \/ DmTick

SpecDm == InitDm /\ [][NextDm]_vars

\* C40: whenever the cache is loaded, the entries returned are those of the
\* file if the file is the object saveDMCache writes and its timestamp is at
\* most 24 hours old, and none at all otherwise: never a part of them
C40_FreshOrEmpty ==
  [][dm'.loadedAt # dm.loadedAt
       => IF dm.file.kind = "ok" /\ dm.now - dm.file.updated <= 24
          THEN dm'.loaded = [dms |-> dm.file.dms, updated |-> dm.file.updated]
          ELSE dm'.loaded = [dms |-> {}, updated |-> 0]]_vars

\* C40 witness: a file holding two entries, written 25 hours ago, has just been
\* loaded and none of its entries was returned
C40_Witness ==
  /\ dm.file.kind = "ok" /\ dm.file.dms = {"D1", "D2"}
  /\ dm.now - dm.file.updated = 25
  /\ dm.loadedAt = dm.now
  /\ dm.loaded.dms = {}

====
